---- MODULE Spec2Model ----
(***************************************************************************)
(* Verification model of the ComfyUI-Launcher core:                        *)
(*   - the resumable transfer engine   (main/lib/download.ts: download)    *)
(*   - the bounded content cache       (main/lib/cache.ts: createCache)    *)
(* One destination path and its ".dl-meta" sidecar are modelled, together  *)
(* with one remote server and one download() call at a time (the engine    *)
(* assumes a single writer per destination).                               *)
(***************************************************************************)
EXTENDS Integers, Sequences, FiniteSets, TLC

VARIABLES disk, srv, call, signal, cache, inst, sweep, multi, lock, probe,
          cmd, wait, launch, xtr, store, reg, rel, safe, dlm

vars == <<disk, srv, call, signal, cache, inst, sweep, multi, lock, probe,
          cmd, wait, launch, xtr, store, reg, rel, safe, dlm>>
dlVars == <<disk, srv, call, signal>>
cacheVars == <<cache, inst>>
\* the state of the other components, which download() and the single-file
\* installer never touch
portVars == <<lock, probe>>
uiVars == <<cmd, wait, launch, xtr, store>>
\* the installation registry, the release cache, the safe-file helpers and
\* the model download manager
appVars == <<reg, rel, safe, dlm>>
extVars == <<sweep, multi, lock, probe, uiVars, appVars>>

(***************************************************************************)
(* Bounds of the model.                                                    *)
(***************************************************************************)
\* largest resource size in bytes
MaxSize == 2
\* number of successive versions (ETags) of the remote resource
MaxVer == 2
\* longest redirect chain in front of the resource: url k redirects to k-1
MaxChain == 1
\* longest redirect chain tried against the redirect limit
MaxHops == 6
\* the cache clock stops advancing here
MaxClock == 3
\* number of cache keys (subfolders "a", "b", "c" are 1, 2, 3)
MaxFolders == 3
\* largest value of the cache's max parameter
MaxKeep == 2
\* number of cache subfolders swept by cleanPartials
MaxSweepFolders == 2
\* latest modification time of a sidecar in the swept tree
MaxStamp == 2
\* largest number of files and sidecars present in the swept tree
MaxEntries == 2
\* longest file list passed to downloadAndExtractMulti
MaxFiles == 2
\* number of ports that can have a lock file
MaxLockPorts == 2
\* largest process id
MaxPid == 2
\* largest port number findAvailablePort is asked about
MaxPort == 3
\* longest argument list of a launch command
MaxArgs == 3
\* latest reading of the clock while waitForPort / waitForUrl runs
MaxElapsed == 2
\* most probes in flight plus timers pending of one wait
MaxPending == 2
\* most lines the extraction backend writes to stderr
MaxLines == 2
\* most chunks of output kept in one console session
MaxOutput == 1

(***************************************************************************)
(* Program constants.                                                      *)
(***************************************************************************)
\* const { signal, expectedSize, _maxRedirects = 5 } = opts
DefaultMaxRedirects == 5

Urls == 0..MaxChain
Versions == 1..MaxVer
Sizes == 0..MaxSize
\* header value standing for "header not sent" / "field undefined"
Absent == 0 - 1

(***************************************************************************)
(* The two files of a transfer.                                            *)
(***************************************************************************)
NoFile == [ex |-> FALSE, data |-> <<>>]
NoMeta == [st |-> "none", url |-> 0, expectedSize |-> 0, etag |-> Absent, caller |-> 0]
\* a sidecar whose JSON cannot be parsed (writeFileSync torn by a crash)
CorruptMeta == [st |-> "corrupt", url |-> 0, expectedSize |-> 0, etag |-> Absent, caller |-> 0]

\* DownloadMeta { url, expectedSize, etag }; caller is a history field: the
\* url the caller of the top-level download() passed.
DownloadMeta(url, expectedSize, etag, caller) ==
  [st |-> "ok", url |-> url, expectedSize |-> expectedSize, etag |-> etag, caller |-> caller]

\* the bytes of version v of the resource: byte i of version v is <<v, i>>
Content(v) == [i \in 1..srv.size[v] |-> <<v, i>>]

Prefix(s, n) == SubSeq(s, 1, n)
IsPrefix(s, t) == Len(s) <= Len(t) /\ s = Prefix(t, Len(s))

\* fs.existsSync(filePath) && !fs.existsSync(downloadMetaPath(filePath))
isDownloadComplete(d) == d.dest.ex /\ d.metaf.st = "none"

\* JSON.parse(readFileSync(metaPath)) or null
readMeta(d) == IF d.metaf.st = "ok" THEN d.metaf ELSE NoMeta

(***************************************************************************)
(* Filesystem operations, in the order a handler issues them.              *)
(***************************************************************************)
Op(name) == [op |-> name, m |-> NoMeta, b |-> <<>>]
UnlinkDest == Op("unlinkDest")
UnlinkMeta == Op("unlinkMeta")
\* fs.writeFileSync truncates the sidecar and then writes the JSON
TruncMeta == Op("truncMeta")
FillMeta(m) == [op |-> "fillMeta", m |-> m, b |-> <<>>]
\* fs.createWriteStream(destPath): flags 'w'
CreateDest == Op("createDest")
\* fs.createWriteStream(destPath, { flags: 'a' })
OpenAppend == Op("openAppend")
WriteChunk(b) == [op |-> "write", m |-> NoMeta, b |-> b]

ApplyOp(d, o) ==
  CASE o.op = "unlinkDest" -> [d EXCEPT !.dest = NoFile]
    [] o.op = "unlinkMeta" -> [d EXCEPT !.metaf = NoMeta]
    [] o.op = "truncMeta"  -> [d EXCEPT !.metaf = CorruptMeta]
    [] o.op = "fillMeta"   -> [d EXCEPT !.metaf = o.m]
    [] o.op = "createDest" -> [d EXCEPT !.dest = [ex |-> TRUE, data |-> <<>>]]
    [] o.op = "openAppend" -> IF d.dest.ex THEN d
                              ELSE [d EXCEPT !.dest = [ex |-> TRUE, data |-> <<>>]]
    [] o.op = "write"      -> [d EXCEPT !.dest = [ex |-> TRUE, data |-> d.dest.data \o o.b]]

RECURSIVE ApplyOps(_, _)
ApplyOps(d, ops) ==
  IF ops = <<>> THEN d ELSE ApplyOps(ApplyOp(d, Head(ops)), Tail(ops))

\* function writeMeta(metaPath, meta)
writeMeta(m) == <<TruncMeta, FillMeta(m)>>

(***************************************************************************)
(* download(url, destPath, onProgress, { signal, expectedSize })           *)
(***************************************************************************)
NoResp == [status |-> 0, loc |-> 0, ver |-> 0, body |-> <<>>, cl |-> Absent, etag |-> Absent]

IdleCall ==
  [pc |-> "idle", topUrl |-> 0, url |-> 0, expectedSize |-> 0, maxRedirects |-> 0,
   resumeFrom |-> 0, reqEtag |-> Absent, range |-> Absent, isResumed |-> FALSE,
   baseBytes |-> 0, effectiveSize |-> 0, receivedBytes |-> 0,
   aborted |-> FALSE, listening |-> FALSE, result |-> "none",
   resp |-> NoResp, body |-> <<>>,
   hops |-> 0, reqs |-> 0,
   wroteMeta |-> FALSE, written |-> 0, sigBeforeEnd |-> FALSE, resumable |-> FALSE]

\* const safeResolve / safeReject: the first settlement wins
safeSettle(c, outcome) == IF c.result = "none" THEN outcome ELSE c.result

\* let resumeFrom = 0 ... resumeFrom = fs.statSync(destPath).size
ResumeFrom(d, u) ==
  LET existingMeta == readMeta(d) IN
  IF existingMeta.st = "ok" /\ d.dest.ex /\ existingMeta.url = u
    THEN Len(d.dest.data) ELSE 0

\* "File is already fully downloaded but meta wasn't cleaned up"
AlreadyComplete(d, u) ==
  LET existingMeta == readMeta(d) IN
  /\ existingMeta.st = "ok" /\ d.dest.ex
  /\ ResumeFrom(d, u) # 0
  /\ existingMeta.expectedSize > 0
  /\ ResumeFrom(d, u) >= existingMeta.expectedSize

\* the unlinks of the resume detection
StartOps(d, u) ==
  LET existingMeta == readMeta(d) IN
  IF existingMeta.st = "ok" /\ d.dest.ex
    THEN IF ResumeFrom(d, u) = 0 THEN <<UnlinkDest, UnlinkMeta>>
         ELSE IF AlreadyComplete(d, u) THEN <<UnlinkMeta>>
         ELSE <<>>
    ELSE IF d.metaf.st # "none" THEN <<UnlinkMeta>> ELSE <<>>

\* request.setHeader('Range', `bytes=${resumeFrom}-`) when
\* resumeFrom > 0 && existingMeta?.etag
RangeHeader(d, u) ==
  IF ResumeFrom(d, u) > 0 /\ readMeta(d).etag # Absent THEN ResumeFrom(d, u) ELSE Absent

\* the body of the Promise executor up to request.end(), for a call of
\* download(u, ...) made with c's options and _maxRedirects = maxR
Begin(c, d, u, maxR) ==
  IF AlreadyComplete(d, u)
    THEN [c EXCEPT !.pc = "done", !.url = u, !.maxRedirects = maxR,
                   !.resumeFrom = ResumeFrom(d, u),
                   !.listening = FALSE,
                   !.result = safeSettle(c, "resolved")]
    ELSE [c EXCEPT !.pc = "requested", !.url = u, !.maxRedirects = maxR,
                   !.resumeFrom = ResumeFrom(d, u),
                   !.reqEtag = readMeta(d).etag,
                   !.range = RangeHeader(d, u),
                   !.aborted = FALSE, !.listening = TRUE,
                   !.reqs = c.reqs + 1]

\* History of a call: it starts on the partial file and sidecar that an
\* interrupted download(u, ...) of the current version left behind, and
\* declares no size or the true one.
LeftByInterrupted(d, u, exp) ==
  /\ d.metaf.st = "ok" /\ d.metaf.caller = u
  /\ exp \in {0, srv.size[srv.ver]}
  /\ d.metaf.etag = srv.ver
  /\ d.metaf.expectedSize \in {0, srv.size[srv.ver]}
  /\ d.dest.ex
  /\ 0 < Len(d.dest.data) /\ Len(d.dest.data) < srv.size[srv.ver]
  /\ IsPrefix(d.dest.data, Content(srv.ver))

\* download(url, destPath, null, { signal, expectedSize })
Start(u, exp) ==
  /\ call.pc = "idle"
  /\ IF signal
       THEN \* if (signal?.aborted) reject(new Error('Download cancelled'))
            /\ call' = [IdleCall EXCEPT !.pc = "done", !.topUrl = u, !.url = u,
                          !.expectedSize = exp,
                          !.maxRedirects = DefaultMaxRedirects,
                          !.result = "cancelled"]
            /\ disk' = disk
       ELSE /\ call' = Begin([IdleCall EXCEPT !.topUrl = u, !.expectedSize = exp,
                                              !.resumable = LeftByInterrupted(disk, u, exp)],
                             disk, u, DefaultMaxRedirects)
            /\ disk' = ApplyOps(disk, StartOps(disk, u))
  /\ UNCHANGED <<srv, signal, cacheVars, extVars>>

(***************************************************************************)
(* The remote server: url k > 0 answers with a redirect to url k-1; url 0  *)
(* serves the current version of the resource.                             *)
(***************************************************************************)
Redirect(loc) == [NoResp EXCEPT !.status = 302, !.loc = loc]
HttpError(code) == [NoResp EXCEPT !.status = code]
Full(cl, etag) ==
  [NoResp EXCEPT !.status = 200, !.ver = srv.ver, !.body = Content(srv.ver),
                 !.cl = cl, !.etag = etag]
Partial(from, cl, etag) ==
  [NoResp EXCEPT !.status = 206, !.ver = srv.ver,
                 !.body = SubSeq(Content(srv.ver), from + 1, srv.size[srv.ver]),
                 !.cl = cl, !.etag = etag]

\* the responses the server may give to the request of call c
Responses(c) ==
  IF c.url > 0 THEN {Redirect(c.url - 1)}
  ELSE LET size == srv.size[srv.ver] IN
       {Full(cl, etag) : cl \in {Absent, size}, etag \in {Absent, srv.ver}}
       \cup {HttpError(404)}
       \cup (IF c.range # Absent /\ c.reqEtag = srv.ver
               THEN IF c.range < size
                      THEN {Partial(c.range, cl, etag) :
                              cl \in {Absent, size - c.range}, etag \in {Absent, srv.ver}}
                      ELSE {HttpError(416)}
               ELSE {})

(***************************************************************************)
(* request.on('response', ...)                                             *)
(***************************************************************************)
\* parseInt(contentLength ?? '0', 10)
chunkTotalBytes(r) == IF r.cl = Absent THEN 0 ELSE r.cl

\* mutant: any successful answer to a resume attempt counts as resumed
IsResumedOnAnySuccess(c, r) == r.status \in {200, 206} /\ c.resumeFrom > 0

\* const isResumed = response.statusCode === 206 && resumeFrom > 0
IsResumed(c, r) == r.status = 206 /\ c.resumeFrom > 0

\* let baseBytes = 0; if (isResumed) baseBytes = resumeFrom
BaseBytes(c, r) == IF IsResumed(c, r) THEN c.resumeFrom ELSE 0

\* const totalBytes = isResumed ? baseBytes + chunkTotalBytes : chunkTotalBytes
\* const sizeFromHeaders = chunkTotalBytes > 0 ? totalBytes : 0
sizeFromHeaders(c, r) ==
  IF chunkTotalBytes(r) > 0 THEN BaseBytes(c, r) + chunkTotalBytes(r) ELSE 0

\* const effectiveSize = expectedSize || sizeFromHeaders
EffectiveSize(c, r) ==
  IF c.expectedSize # 0 THEN c.expectedSize ELSE sizeFromHeaders(c, r)

\* if (expectedSize && sizeFromHeaders > 0 && expectedSize !== sizeFromHeaders)
SizeConflict(c, r) ==
  c.expectedSize # 0 /\ sizeFromHeaders(c, r) > 0 /\ c.expectedSize # sizeFromHeaders(c, r)

IsRedirect(r) == r.status >= 300 /\ r.status < 400

\* mutant: the limit test is off by one
TooManyRedirectsOffByOne(c) == c.maxRedirects < 0

\* if (_maxRedirects <= 0) safeReject('Download failed: too many redirects')
TooManyRedirects(c) == c.maxRedirects <= 0

\* if (isResumed) ... else if (resumeFrom > 0) unlinkSync(destPath)
DiscardOps(c, r) ==
  IF ~IsResumed(c, r) /\ c.resumeFrom > 0 THEN <<UnlinkDest>> ELSE <<>>

\* fs.createWriteStream(destPath, isResumed ? { flags: 'a' } : undefined)
OpenOps(c, r) == IF IsResumed(c, r) THEN <<OpenAppend>> ELSE <<CreateDest>>

\* the filesystem operations of the response handler, in order
ResponseOps(c, d, r) ==
  IF IsRedirect(r)
    THEN IF TooManyRedirects(c) THEN <<>> ELSE StartOps(d, r.loc)
  ELSE IF ~IsResumed(c, r) /\ r.status # 200 THEN <<>>
  ELSE IF SizeConflict(c, r) THEN DiscardOps(c, r)
  ELSE DiscardOps(c, r)
       \o writeMeta(DownloadMeta(c.url, EffectiveSize(c, r), r.etag, c.topUrl))
       \o OpenOps(c, r)

\* the state of the call when the response handler returns
ResponseCall(c, d, r) ==
  IF IsRedirect(r)
    THEN IF TooManyRedirects(c)
           THEN [c EXCEPT !.pc = "done", !.listening = FALSE, !.hops = c.hops + 1,
                          !.result = safeSettle(c, "tooManyRedirects")]
           ELSE Begin([c EXCEPT !.hops = c.hops + 1], d, r.loc, c.maxRedirects - 1)
  ELSE IF ~IsResumed(c, r) /\ r.status # 200
    THEN [c EXCEPT !.pc = "done", !.listening = FALSE, !.resp = r,
                   !.result = safeSettle(c, "http")]
  ELSE IF SizeConflict(c, r)
    THEN [c EXCEPT !.pc = "done", !.listening = FALSE, !.resp = r,
                   !.isResumed = IsResumed(c, r),
                   !.result = safeSettle(c, "sizeMismatch")]
  ELSE [c EXCEPT !.pc = "streaming", !.resp = [r EXCEPT !.body = <<>>], !.body = r.body,
                 !.isResumed = IsResumed(c, r),
                 !.baseBytes = BaseBytes(c, r),
                 !.effectiveSize = EffectiveSize(c, r),
                 !.receivedBytes = BaseBytes(c, r),
                 !.wroteMeta = TRUE]

OnResponse(r) ==
  /\ call.pc = "requested" /\ ~call.aborted
  /\ r \in Responses(call)
  /\ call' = ResponseCall(call, disk, r)
  /\ disk' = ApplyOps(disk, ResponseOps(call, disk, r))
  /\ UNCHANGED <<srv, signal, cacheVars, extVars>>

\* response.on('data', chunk)
OnData(n) ==
  /\ call.pc = "streaming" /\ ~call.aborted
  /\ n \in 1..Len(call.body)
  /\ call' = [call EXCEPT !.receivedBytes = call.receivedBytes + n,
                          !.body = SubSeq(call.body, n + 1, Len(call.body)),
                          !.written = call.written + n]
  /\ disk' = ApplyOps(disk, <<WriteChunk(Prefix(call.body, n))>>)
  /\ UNCHANGED <<srv, signal, cacheVars, extVars>>

\* response.on('end', ...): a body without Content-Length may end early
OnEnd ==
  /\ call.pc = "streaming"
  /\ call.body = <<>> \/ call.resp.cl = Absent \/ call.aborted
  /\ call' = [call EXCEPT !.listening = FALSE,
                          !.pc = IF call.aborted THEN "done" ELSE "closing",
                          !.result = IF call.aborted THEN safeSettle(call, "cancelled")
                                     ELSE call.result]
  /\ UNCHANGED <<disk, srv, signal, cacheVars, extVars>>

\* fileStream.on('close', ...): the size validation
CloseSizeOk(c, d) == c.effectiveSize > 0 => (d.dest.ex /\ Len(d.dest.data) = c.effectiveSize)

CloseOps(c, d) ==
  IF CloseSizeOk(c, d) THEN <<UnlinkMeta>> ELSE <<UnlinkDest, UnlinkMeta>>

CloseResult(c, d) == IF CloseSizeOk(c, d) THEN "resolved" ELSE "incomplete"

OnClose ==
  /\ call.pc = "closing"
  /\ call' = [call EXCEPT !.pc = "done",
                          !.result = safeSettle(call, CloseResult(call, disk))]
  /\ disk' = ApplyOps(disk, CloseOps(call, disk))
  /\ UNCHANGED <<srv, signal, cacheVars, extVars>>

\* mutant: the partial file is removed on a response error
ResponseErrorOpsUnlinking == <<UnlinkDest>>

\* response.on('error', ...): files and meta are kept
ResponseErrorOps == <<>>

OnResponseError ==
  /\ call.pc = "streaming"
  /\ call' = [call EXCEPT !.pc = "done", !.listening = FALSE,
                          !.result = safeSettle(call, IF call.aborted THEN "cancelled"
                                                      ELSE "network")]
  /\ disk' = ApplyOps(disk, ResponseErrorOps)
  /\ UNCHANGED <<srv, signal, cacheVars, extVars>>

\* request.on('error', ...)
OnRequestError ==
  /\ call.pc \in {"requested", "streaming"}
  /\ call' = [call EXCEPT !.pc = "done", !.listening = FALSE,
                          !.result = safeSettle(call, IF call.aborted THEN "cancelled"
                                                      ELSE "network")]
  /\ UNCHANGED <<disk, srv, signal, cacheVars, extVars>>

\* mutant: onAbort removes the partial file
AbortOpsUnlinking == <<UnlinkDest>>

\* the filesystem operations onAbort performs: none, "Keep files + meta"
AbortOps == <<>>

\* the AbortSignal fires; onAbort runs if it is still registered
Abort ==
  /\ ~signal
  /\ signal' = TRUE
  /\ call' = IF call.listening
               THEN [call EXCEPT !.aborted = TRUE,
                                 !.result = safeSettle(call, "cancelled"),
                                 !.sigBeforeEnd = call.pc \in {"requested", "streaming"}]
               ELSE [call EXCEPT !.sigBeforeEnd = call.pc \in {"requested", "streaming"}]
  /\ disk' = IF call.listening THEN ApplyOps(disk, AbortOps) ELSE disk
  /\ UNCHANGED <<srv, cacheVars, extVars>>

\* the settled promise is consumed; the next call gets a fresh signal
Finish ==
  /\ call.result # "none"
  /\ call.pc = "done" \/ call.aborted
  /\ call' = IdleCall
  /\ signal' = FALSE
  /\ UNCHANGED <<disk, srv, cacheVars, extVars>>

\* the remote resource is replaced: new content, new ETag
ServerChange ==
  /\ call.pc = "idle"
  /\ srv.ver < MaxVer
  /\ srv' = [srv EXCEPT !.ver = srv.ver + 1]
  /\ UNCHANGED <<disk, call, signal, cacheVars, extVars>>

\* the filesystem operations of the handlers that may be running now
HandlerOps ==
  CASE call.pc = "idle"      -> {StartOps(disk, u) : u \in Urls}
    [] call.pc = "requested" -> {ResponseOps(call, disk, r) : r \in Responses(call)}
    [] call.pc = "streaming" -> {<<WriteChunk(Prefix(call.body, n))>> : n \in 1..Len(call.body)}
    [] call.pc = "closing"   -> {CloseOps(call, disk)}
    [] OTHER                 -> {}

\* the process dies, possibly in the middle of a handler: a prefix of the
\* handler's filesystem operations has reached the disk
Crash ==
  /\ \E ops \in HandlerOps \cup {<<>>} :
       \E k \in 0..Len(ops) : disk' = ApplyOps(disk, Prefix(ops, k))
  /\ call.pc # "idle" \/ disk' # disk
  /\ call' = IdleCall
  /\ signal' = FALSE
  /\ UNCHANGED <<srv, cacheVars, extVars>>

DlInit ==
  /\ disk = [dest |-> NoFile, metaf |-> NoMeta]
  /\ srv \in [ver : {1}, size : [Versions -> Sizes]]
  /\ call = IdleCall
  /\ signal = FALSE

\* no transfer in progress, nothing at destPath, a one-byte resource
DlIdle ==
  /\ disk = [dest |-> NoFile, metaf |-> NoMeta]
  /\ srv = [ver |-> 1, size |-> [v \in Versions |-> 1]]
  /\ call = IdleCall
  /\ signal = FALSE

Folders == 1..MaxFolders
\* art is the artifact in the folder: "none", "partial" (data file and
\* sidecar) or "complete" (data file only); size is the data file's size
NoFolder == [ex |-> FALSE, mtime |-> 0, art |-> "none", size |-> 0]
\* log lists the calls downloadAndExtract made, result how the last call ended
IdleInst == [pc |-> "idle", key |-> 0, expectedSize |-> 0, downloaded |-> FALSE,
             evicted |-> {}, before |-> 0, log |-> <<>>, result |-> "none"]

\* createCache(dir, max) on an empty base directory
EmptyCache(max) == [now |-> 0, max |-> max, dirs |-> [f \in Folders |-> NoFolder]]

CacheIdle ==
  /\ cache = EmptyCache(1)
  /\ inst = IdleInst

(***************************************************************************)
(* The tree swept by cleanPartials: cache subfolders holding data files    *)
(* and their ".dl-meta" sidecars.                                          *)
(***************************************************************************)
SweepFolders == 1..MaxSweepFolders
\* the data files of one subfolder, in directory order
NameSeq == <<"a.7z", "b.7z">>
Names == {NameSeq[i] : i \in 1..Len(NameSeq)}
Slots == SweepFolders \X Names

\* a data file and its sidecar <name>.dl-meta; mtime is the sidecar's
NoEntry == [data |-> FALSE, meta |-> FALSE, mtime |-> 0]
Entries ==
  {NoEntry, [data |-> TRUE, meta |-> FALSE, mtime |-> 0]}
    \cup [data : BOOLEAN, meta : {TRUE}, mtime : 0..MaxStamp]

NoFault == [kind |-> "none", f |-> 0, n |-> ""]
SweepIdle ==
  [tree |-> [s \in Slots |-> NoEntry], result |-> "none",
   cutoff |-> 0, fault |-> NoFault, removed |-> {}]

\* no downloadAndExtractMulti call was requested
MultiNone ==
  [pc |-> "none", files |-> <<>>, have |-> <<>>, i |-> 0, completedBytes |-> 0,
   allCached |-> TRUE, recv |-> 0, progressed |-> FALSE, total |-> 0,
   percents |-> <<>>, log |-> <<>>,
   extractFile |-> <<>>, result |-> "none"]

\* the lock directory is empty and no process of interest runs; read is the
\* last readPortLock call: its port, the file it found, what it returned
LockPorts == 1..MaxLockPorts
Pids == 1..MaxPid
NoLockFile == [kind |-> "absent", pid |-> 0]
\* readPortLock returned null
NullLock == [kind |-> "null", pid |-> 0]
NoRead == [port |-> 0, was |-> NoLockFile, result |-> [kind |-> "none", pid |-> 0]]
\* no readPortLock call of another launcher instance is under way
ReaderIdle == [pc |-> "idle", port |-> 0, raw |-> NoLockFile]
LockIdle ==
  [files |-> [p \in LockPorts |-> NoLockFile], procs |-> [q \in Pids |-> "dead"],
   read |-> NoRead, reader |-> ReaderIdle]

\* findAvailablePort was not called; bound are the ports other listeners hold
\* pair holds two findAvailablePort calls running side by side
Callers == {1, 2}
CallerIdle == [pc |-> "idle", endPort |-> 0, port |-> 0, result |-> "none"]
ProbeIdle ==
  [pc |-> "idle", startPort |-> 0, endPort |-> 0, port |-> 0, bound |-> {},
   steady |-> TRUE, tried |-> <<>>, result |-> "none",
   pair |-> [c \in Callers |-> CallerIdle]]

PortIdle ==
  /\ lock = LockIdle
  /\ probe = ProbeIdle

\* setPortArg was not called: no launch command
CmdIdle == [pc |-> "none", args |-> <<>>, port |-> 0, before |-> <<>>]
\* waitForPort / waitForUrl was not called
WaitIdle ==
  [pc |-> "none", fn |-> "none", aborted |-> FALSE, elapsed |-> 0, timeoutMs |-> 0,
   inflight |-> 0, timers |-> 0, result |-> "none", abortedAtSettle |-> FALSE]
\* no launch attempt was made
LaunchIdle ==
  [pc |-> "Idle", port |-> 0, pid |-> 0, cancelled |-> FALSE, trail |-> <<"Idle">>,
   filesAtBegin |-> LockIdle.files]
\* extract was not called
XtrIdle ==
  [pc |-> "none", stderr |-> <<>>, code |-> 0, spawnError |-> FALSE,
   result |-> "none", message |-> "none"]
\* the session store as created
NoCall == [op |-> "none", id |-> "none", hadError |-> FALSE]
StoreIdle ==
  [runningInstances |-> <<>>, activeSessions |-> <<>>, errorInstances |-> <<>>,
   consoleSessions |-> <<>>, last |-> NoCall]

\* no call was made to the registry, the release cache, the safe-file
\* helpers or the download manager
RegIdle == [pc |-> "none"]
RelIdle == [pc |-> "none"]
SafeIdle == [pc |-> "none"]
DlmIdle == [pc |-> "none"]
AppIdle ==
  /\ reg = RegIdle
  /\ rel = RelIdle
  /\ safe = SafeIdle
  /\ dlm = DlmIdle

UiIdle ==
  /\ cmd = CmdIdle
  /\ wait = WaitIdle
  /\ launch = LaunchIdle
  /\ xtr = XtrIdle
  /\ store = StoreIdle
  /\ AppIdle

\* the components outside the transfer engine and the single-file installer
\* are at rest
ExtIdle ==
  /\ sweep = SweepIdle
  /\ multi = MultiNone
  /\ PortIdle
  /\ UiIdle

Init == DlInit /\ CacheIdle /\ ExtIdle

Next ==
  \/ \E u \in Urls, exp \in Sizes : Start(u, exp)
  \/ \E r \in Responses(call) : OnResponse(r)
  \/ \E n \in 1..MaxSize : OnData(n)
  \/ OnEnd
  \/ OnClose
  \/ OnResponseError
  \/ OnRequestError
  \/ Abort
  \/ Finish
  \/ ServerChange
  \/ Crash

Spec == Init /\ [][Next]_vars

(***************************************************************************)
(* Filesystem failures.  writeMeta swallows the exception of               *)
(* fs.writeFileSync; a failing write stream emits 'error'.                 *)
(***************************************************************************)
\* the response handler when fs.writeFileSync(metaPath, ...) throws
ResponseOpsMetaFails(c, d, r) ==
  IF IsRedirect(r) \/ (~IsResumed(c, r) /\ r.status # 200) \/ SizeConflict(c, r)
    THEN ResponseOps(c, d, r)
    ELSE DiscardOps(c, r) \o OpenOps(c, r)

OnResponseMetaFails(r) ==
  /\ call.pc = "requested" /\ ~call.aborted
  /\ r \in Responses(call)
  /\ r.status \in {200, 206} /\ ~SizeConflict(call, r)
  /\ ~IsRedirect(r) /\ (IsResumed(call, r) \/ r.status = 200)
  /\ call' = [ResponseCall(call, disk, r) EXCEPT !.wroteMeta = FALSE]
  /\ disk' = ApplyOps(disk, ResponseOpsMetaFails(call, disk, r))
  /\ UNCHANGED <<srv, signal, cacheVars, extVars>>

\* fileStream.on('error', ...): unlink destPath and metaPath, reject
FileStreamErrorOps == <<UnlinkDest, UnlinkMeta>>

OnFileStreamError ==
  /\ call.pc \in {"streaming", "closing"}
  /\ call' = [call EXCEPT !.pc = "done", !.listening = FALSE,
                          !.result = safeSettle(call, "fs")]
  /\ disk' = ApplyOps(disk, FileStreamErrorOps)
  /\ UNCHANGED <<srv, signal, cacheVars, extVars>>

NextFsFaults ==
  \/ Next
  \/ \E r \in Responses(call) : OnResponseMetaFails(r)
  \/ OnFileStreamError

SpecFsFaults == Init /\ [][NextFsFaults]_vars

(***************************************************************************)
(* Redirect chains up to MaxHops in front of a one-byte resource.          *)
(***************************************************************************)
RedirectInit ==
  /\ disk = [dest |-> NoFile, metaf |-> NoMeta]
  /\ srv = [ver |-> 1, size |-> [v \in Versions |-> 1]]
  /\ call = IdleCall
  /\ signal = FALSE
  /\ CacheIdle
  /\ ExtIdle

NextRedirect ==
  \/ \E u \in 0..MaxHops : Start(u, 0)
  \/ \E r \in Responses(call) : OnResponse(r)
  \/ \E n \in 1..MaxSize : OnData(n)
  \/ OnEnd
  \/ OnClose
  \/ OnResponseError
  \/ OnRequestError
  \/ Abort
  \/ Finish

SpecRedirect == RedirectInit /\ [][NextRedirect]_vars

(***************************************************************************)
(* Claims about the transfer engine.                                       *)
(***************************************************************************)
FileSize == Len(disk.dest.data)
CurrentSize == srv.size[srv.ver]

\* C1 (as claimed): a call of download() with the url whose interrupted
\* download left N of M bytes and the sidecar, the ETag unchanged, requests
\* Range: bytes=N- with If-Range: <etag>, appends what a 206 response
\* brings, and, the response delivered to its end without another
\* interruption, resolves with the M bytes of a full download and no sidecar.
C1_ResumeAsClaimed ==
  call.resumable =>
    /\ (call.pc = "requested" /\ call.hops = 0) =>
         /\ call.range = FileSize /\ call.range > 0
         /\ call.reqEtag = srv.ver
    /\ (call.pc = "streaming" /\ call.resp.status = 206) =>
         /\ call.isResumed
         /\ FileSize = call.baseBytes + call.written
         /\ IsPrefix(disk.dest.data, Content(srv.ver))
    /\ (/\ call.pc = "done" /\ call.resp.status = 206 /\ call.body = <<>>
        /\ call.result \notin {"network", "cancelled"}) =>
         /\ call.result = "resolved"
         /\ disk.dest.ex /\ disk.dest.data = Content(srv.ver)
         /\ disk.metaf.st = "none"
         /\ call.written = CurrentSize - call.baseBytes

\* the same statement restricted to urls the server answers directly
C1_ResumeDirectUrl == call.topUrl = 0 => C1_ResumeAsClaimed

C1_ResumedToEnd ==
  /\ call.resumable /\ call.result = "resolved" /\ call.resp.status = 206
  /\ call.written > 0 /\ call.baseBytes > 0

\* C2: when a resume was attempted (resumeFrom > 0) and the server answers
\* 200 with the full content, the file holds, from byte 0, exactly the bytes
\* of that response written so far: nothing of the old partial remains in
\* front of them.
C2_ResumeInvalidation ==
  (/\ call.resumeFrom > 0 /\ call.resp.status = 200
   /\ \/ call.pc \in {"streaming", "closing"}
      \/ call.pc = "done" /\ call.result = "resolved") =>
    /\ disk.dest.ex
    /\ FileSize = call.written
    /\ IsPrefix(disk.dest.data, Content(call.resp.ver))

C2_RestartedFromZero ==
  /\ call.pc = "streaming" /\ call.range # Absent /\ call.resp.status = 200
  /\ call.resp.ver # call.reqEtag
  /\ call.written > 0 /\ call.written < call.resumeFrom

\* the server-declared total size of a 200 or 206 response
DeclaredTotal(c) ==
  c.resp.cl + (IF c.resp.status = 206 THEN c.resumeFrom ELSE 0)

\* C3 (as claimed): expectedSize given, Content-Length present and the
\* declared total different from expectedSize: the call is rejected with the
\* size-mismatch error, no sidecar written and no response byte written.
C3_SizeMismatchAsClaimed ==
  (/\ call.expectedSize > 0
   /\ call.resp.status \in {200, 206} /\ call.resp.cl # Absent
   /\ DeclaredTotal(call) # call.expectedSize) =>
    /\ call.result = "sizeMismatch"
    /\ ~call.wroteMeta
    /\ call.written = 0

\* the same statement for a Content-Length above zero
C3_SizeMismatchPositiveLength == call.resp.cl # 0 => C3_SizeMismatchAsClaimed

\* C4 (as claimed): download() on a destination that is complete (file
\* present, no sidecar) resolves at once, sends no request and leaves the
\* file as it is.
C4_IdempotentAsClaimed ==
  [][(/\ call.pc = "idle" /\ call'.pc # "idle" /\ ~signal
      /\ isDownloadComplete(disk)) =>
       /\ call'.result = "resolved"
       /\ call'.reqs = 0
       /\ disk' = disk]_vars

\* C5 (as claimed): a data file without a sidecar holds the full content of
\* a version of the resource.
C5_SidecarSoleSignalAsClaimed ==
  isDownloadComplete(disk) => \E v \in Versions : disk.dest.data = Content(v)

\* the total size known to a settled call
KnownTotal(c) ==
  IF c.expectedSize > 0 THEN c.expectedSize
  ELSE IF c.resp.status \in {200, 206} THEN sizeFromHeaders(c, c.resp)
  ELSE 0

\* C6 (as claimed): a call that resolves with a known total size leaves a
\* file of exactly that size and no sidecar; a call rejected for its final
\* size leaves neither file nor sidecar.
C6_ExactSizeAsClaimed ==
  /\ (call.result = "resolved" /\ KnownTotal(call) > 0) =>
       /\ disk.dest.ex /\ FileSize = KnownTotal(call)
       /\ disk.metaf.st = "none"
  /\ call.result = "incomplete" => (~disk.dest.ex /\ disk.metaf.st = "none")

\* the same statement for the calls that resolve after a response
C6_ExactSizeAfterResponse ==
  call.resp.status \in {200, 206} => C6_ExactSizeAsClaimed

\* C7: once the signal has fired before the response ended (also on a
\* redirect hop), the promise is rejected with the cancellation error, and
\* from the abort on the call deletes neither the file nor the sidecar.
C7_Cancellation ==
  /\ [](call.sigBeforeEnd => call.result = "cancelled")
  /\ [][call'.sigBeforeEnd =>
          /\ disk.dest.ex => disk'.dest.ex
          /\ disk.metaf.st # "none" => disk'.metaf.st # "none"]_vars

C7_CancelledMidStream ==
  /\ call.sigBeforeEnd /\ call.pc = "done" /\ call.hops > 0
  /\ call.written > 0 /\ call.body # <<>>
  /\ disk.dest.ex /\ disk.metaf.st = "ok"

\* C8: a request or response error without an abort, after the request was
\* sent, rejects with that error and changes neither file nor sidecar; after
\* a failure in mid-stream the partial file and its sidecar are both there.
C8_NetworkFailureKeepsState ==
  /\ [][((OnResponseError \/ OnRequestError) /\ ~call.aborted) =>
          (call'.result = "network" /\ disk' = disk)]_vars
  /\ []((call.result = "network" /\ call.wroteMeta) =>
          /\ disk.dest.ex /\ FileSize = call.baseBytes + call.written
          /\ disk.metaf.st = "ok" /\ disk.metaf.url = call.url)

C8_FailedMidStream ==
  /\ call.result = "network" /\ call.written > 0 /\ call.body # <<>>
  /\ disk.dest.ex /\ disk.metaf.st = "ok"

\* C9: with the default options at most 5 redirects are followed (6
\* requests); the call is rejected for too many redirects exactly on the
\* 6th redirect response, and a chain of up to 5 redirects reaches its final
\* response.
C9_RedirectBound ==
  /\ call.pc # "idle" => call.reqs <= DefaultMaxRedirects + 1
  /\ call.result = "tooManyRedirects" =>
       /\ call.hops = DefaultMaxRedirects + 1
       /\ call.topUrl - call.url = DefaultMaxRedirects
  /\ (call.pc = "requested" /\ call.url = 0) => call.hops = call.topUrl
  /\ (call.pc \in {"requested", "streaming"} /\ call.topUrl <= DefaultMaxRedirects) =>
       call.result \in {"none", "cancelled"}

C9_SixthRedirectRefused ==
  /\ call.result = "tooManyRedirects" /\ call.reqs = DefaultMaxRedirects + 1

(***************************************************************************)
(* The content cache (createCache) driven by downloadAndExtract.           *)
(* A subfolder's mtime is set when it is created, when a file is created   *)
(* or removed in it, and by touch().                                       *)
(***************************************************************************)
Existing(dirs) == {f \in Folders : dirs[f].ex}

\* all orders of the set S as sequences
Orders(S) ==
  {q \in [1..Cardinality(S) -> S] : \A i, j \in 1..Cardinality(S) : i # j => q[i] # q[j]}

\* mutant: the comparator sorts oldest first
OldestFirst(dirs) ==
  {q \in Orders(Existing(dirs)) :
     \A i, j \in 1..Len(q) : i < j => dirs[q[i]].mtime <= dirs[q[j]].mtime}

\* .sort((a, b) => b.mtime - a.mtime): newest first; equal mtimes keep the
\* order readdirSync returned, which is any order
NewestFirst(dirs) ==
  {q \in Orders(Existing(dirs)) :
     \A i, j \in 1..Len(q) : i < j => dirs[q[i]].mtime >= dirs[q[j]].mtime}

\* while (folders.length > max) { const old = folders.pop(); rmSync(old) }
Survivors(q, max) ==
  {q[i] : i \in 1..(IF Len(q) > max THEN (IF max > 0 THEN max ELSE 0) ELSE Len(q))}

\* function evict(): the directories left, for the sorted list q
evict(dirs, q, max) ==
  [f \in Folders |-> IF dirs[f].ex /\ f \notin Survivors(q, max) THEN NoFolder ELSE dirs[f]]

\* function touch(folder)
touch(dirs, folder, now) ==
  IF dirs[folder].ex THEN [dirs EXCEPT ![folder].mtime = now] ELSE dirs

\* fs.mkdirSync(cacheBase, { recursive: true })
mkdir(dirs, folder, now) ==
  IF dirs[folder].ex THEN dirs
  ELSE [dirs EXCEPT ![folder] = [ex |-> TRUE, mtime |-> now, art |-> "none", size |-> 0]]

\* a validity test that ignores the size
isCacheValidAnySize(dirs, folder, expectedSize) ==
  dirs[folder].ex /\ dirs[folder].art = "complete"

\* isCacheValid(cachePath, expectedSize): the artifact is there, has no
\* sidecar and, when expectedSize is given and positive, has that size
isCacheValid(dirs, folder, expectedSize) ==
  /\ dirs[folder].ex /\ dirs[folder].art = "complete"
  /\ expectedSize > 0 => dirs[folder].size = expectedSize

\* downloadAndExtract(url, dest, cacheKey, ctx, expectedSize) up to the first
\* await or, on the cached branch, up to cache.touch; expectedSize 0 stands
\* for an omitted expectedSize
InstallStart(k, expectedSize) ==
  /\ inst.pc = "idle"
  /\ LET made == mkdir(cache.dirs, k, cache.now)
         hit == isCacheValid(made, k, expectedSize)
     IN
       /\ cache' = [cache EXCEPT !.dirs = made]
       /\ inst' = [IdleInst EXCEPT !.key = k, !.expectedSize = expectedSize,
                     !.pc = IF hit THEN "touch" ELSE "download",
                     !.log = IF hit THEN <<"progress 100">>
                                    ELSE <<"progress 0", "download">>]
  /\ UNCHANGED <<dlVars, extVars>>

\* await download(...) resolves: the artifact is in the folder, no sidecar.
\* Its size is expectedSize when one was passed, unless download() resolved
\* from a partial file it found already at its sidecar's recorded size
InstallDownloadOk(size) ==
  /\ inst.pc = "download"
  /\ \/ inst.expectedSize = 0
     \/ size = inst.expectedSize
     \/ cache.dirs[inst.key].art = "partial"
  /\ cache' = [cache EXCEPT !.dirs[inst.key].art = "complete",
                            !.dirs[inst.key].size = size,
                            !.dirs[inst.key].mtime = cache.now]
  /\ inst' = [inst EXCEPT !.pc = "touch", !.downloaded = TRUE,
                          !.log = Append(inst.log, "resolved")]
  /\ UNCHANGED <<dlVars, extVars>>

\* a rejected download that lets downloadAndExtract run on
AfterDownloadRejectedContinuing(i) ==
  [i EXCEPT !.pc = "touch", !.downloaded = TRUE, !.log = Append(i.log, "rejected")]

\* await download(...) throws: nothing after it in downloadAndExtract runs
AfterDownloadRejected(i) ==
  [IdleInst EXCEPT !.result = "download rejected", !.key = i.key,
                   !.log = Append(i.log, "rejected")]

\* await download(...) rejects: downloadAndExtract rejects; the engine left
\* the folder as it was, or a partial file and its sidecar, or neither
InstallDownloadFail ==
  /\ inst.pc = "download"
  /\ \E left \in {cache.dirs[inst.key].art, "partial", "none"} :
       cache' = [cache EXCEPT !.dirs[inst.key].art = left,
                              !.dirs[inst.key].size =
                                 IF left = cache.dirs[inst.key].art
                                   THEN cache.dirs[inst.key].size ELSE 0,
                              !.dirs[inst.key].mtime =
                                 IF left = cache.dirs[inst.key].art
                                   THEN cache.dirs[inst.key].mtime ELSE cache.now]
  /\ inst' = AfterDownloadRejected(inst)
  /\ UNCHANGED <<dlVars, extVars>>

\* cache.touch(cacheKey)
InstallTouch ==
  /\ inst.pc = "touch"
  /\ cache' = [cache EXCEPT !.dirs = touch(cache.dirs, inst.key, cache.now)]
  /\ inst' = [inst EXCEPT !.pc = IF inst.downloaded THEN "evict" ELSE "extract",
                          !.log = IF inst.downloaded
                                    THEN Append(inst.log, "touch")
                                    ELSE inst.log \o <<"touch", "extract">>]
  /\ UNCHANGED <<dlVars, extVars>>

\* cache.evict()
InstallEvict ==
  /\ inst.pc = "evict"
  /\ \E q \in NewestFirst(cache.dirs) :
       /\ cache' = [cache EXCEPT !.dirs = evict(cache.dirs, q, cache.max)]
       /\ inst' = [inst EXCEPT !.pc = "extract",
                     !.log = inst.log \o <<"evict", "extract">>,
                     !.before = Cardinality(Existing(cache.dirs)),
                     !.evicted = {[name |-> f, mtime |-> cache.dirs[f].mtime] :
                                    f \in Existing(cache.dirs) \ Survivors(q, cache.max)}]
  /\ UNCHANGED <<dlVars, extVars>>

\* await extract(...) settles: it resolves (ok) or rejects; extract only
\* reads the archive
InstallExtract(ok) ==
  /\ inst.pc = "extract"
  /\ inst' = [IdleInst EXCEPT !.key = inst.key, !.expectedSize = inst.expectedSize,
                 !.log = inst.log,
                 !.result = IF ok THEN "resolved" ELSE "extract rejected"]
  /\ UNCHANGED <<cache, dlVars, extVars>>

\* time passes
Tick ==
  /\ cache.now < MaxClock
  /\ cache' = [cache EXCEPT !.now = cache.now + 1]
  /\ UNCHANGED <<inst, dlVars, extVars>>

CacheInit ==
  /\ disk = [dest |-> NoFile, metaf |-> NoMeta]
  /\ srv = [ver |-> 1, size |-> [v \in Versions |-> 0]]
  /\ call = IdleCall
  /\ signal = FALSE
  /\ cache \in {EmptyCache(max) : max \in 0..MaxKeep}
  /\ inst = IdleInst
  /\ ExtIdle

NextCache ==
  \/ \E k \in Folders : InstallStart(k, 0)
  \/ InstallDownloadOk(1)
  \/ InstallDownloadFail
  \/ InstallTouch
  \/ InstallEvict
  \/ InstallExtract(TRUE)
  \/ Tick

SpecCache == CacheInit /\ [][NextCache]_vars

Min(a, b) == IF a < b THEN a ELSE b

\* C10: right after evict() returned, the base directory holds at most max
\* subfolders, as many as it can (none is deleted needlessly), and every
\* deleted folder was touched no later than every surviving one.
C10_CacheBound ==
  (inst.pc = "extract" /\ inst.downloaded) =>
    /\ Cardinality(Existing(cache.dirs)) <= cache.max
    /\ Cardinality(Existing(cache.dirs)) = Min(cache.max, inst.before)
    /\ Cardinality(inst.evicted) = inst.before - Cardinality(Existing(cache.dirs))
    /\ \A e \in inst.evicted : \A s \in Existing(cache.dirs) :
         /\ e.name # s
         /\ e.mtime <= cache.dirs[s].mtime

\* max = 2; a, b, c populated and touched in that order; b and c are left
C10_EvictedOldest ==
  /\ inst.pc = "extract" /\ inst.downloaded /\ cache.max = 2
  /\ Existing(cache.dirs) = {2, 3}
  /\ inst.evicted = {[name |-> 1, mtime |-> 1]}
  /\ cache.dirs[2].mtime = 2 /\ cache.dirs[3].mtime = 3

(***************************************************************************)
(* cleanPartials (main/lib/cache.ts): the sweep for abandoned downloads.   *)
(* A fault is one filesystem call of the sweep that throws.                *)
(***************************************************************************)
EntryFaultKinds == {"stat", "unlinkData", "unlinkMeta"}

Faults(tree) ==
  {NoFault, [kind |-> "readdirBase", f |-> 0, n |-> ""]}
    \cup {[kind |-> "readdir", f |-> f, n |-> ""] : f \in SweepFolders}
    \cup {[kind |-> k, f |-> s[1], n |-> s[2]] :
            k \in EntryFaultKinds, s \in {x \in Slots : tree[x].meta}}

\* a threshold that also takes the sidecars exactly maxAge old
IsStaleInclusive(e, cutoff) == e.meta /\ e.mtime <= cutoff

\* stat.mtimeMs < cutoff
IsStale(e, cutoff) == e.meta /\ e.mtime < cutoff

\* the body of the innermost try for one sidecar; fk is the call that throws
\* while this entry is handled ("none" when the fault is elsewhere)
CleanEntry(e, cutoff, fk) ==
  IF ~e.meta \/ fk = "stat" \/ ~IsStale(e, cutoff) THEN e
  ELSE [data |-> e.data /\ fk = "unlinkData",
        meta |-> fk = "unlinkMeta",
        mtime |-> IF fk = "unlinkMeta" THEN e.mtime ELSE 0]

\* an exception reaches the catch of the per-entry try
EntryThrows(e, cutoff, fk) ==
  e.meta /\ (fk = "stat" \/ (IsStale(e, cutoff) /\ fk = "unlinkMeta"))

RECURSIVE CleanEntries(_, _, _, _, _)

\* a sweep whose per-entry failure leaves the rest of the folder unswept
AfterEntryErrorAborting(tree, f, i, cutoff, fault) == tree

\* } catch {} of the per-entry try: the loop goes on with the next entry
AfterEntryError(tree, f, i, cutoff, fault) ==
  CleanEntries(tree, f, i + 1, cutoff, fault)

\* for (const entry of entries), from the i-th entry of folder f on
CleanEntries(tree, f, i, cutoff, fault) ==
  IF i > Len(NameSeq) THEN tree
  ELSE LET s == <<f, NameSeq[i]>>
           fk == IF fault.f = f /\ fault.n = NameSeq[i] THEN fault.kind ELSE "none"
           swept == [tree EXCEPT ![s] = CleanEntry(tree[s], cutoff, fk)]
       IN IF EntryThrows(tree[s], cutoff, fk)
            THEN AfterEntryError(swept, f, i, cutoff, fault)
            ELSE CleanEntries(swept, f, i + 1, cutoff, fault)

RECURSIVE CleanFolders(_, _, _, _)
\* for (const folder of folders), from folder f on; a folder whose listing
\* throws is skipped by the catch of the per-folder try
CleanFolders(tree, f, cutoff, fault) ==
  IF f > MaxSweepFolders THEN tree
  ELSE IF fault.kind = "readdir" /\ fault.f = f
         THEN CleanFolders(tree, f + 1, cutoff, fault)
         ELSE CleanFolders(CleanEntries(tree, f, 1, cutoff, fault), f + 1, cutoff, fault)

\* cleanPartials(maxAgeMs) as a function of the tree
cleanPartials(tree, cutoff, fault) ==
  IF fault.kind = "readdirBase" THEN tree ELSE CleanFolders(tree, 1, cutoff, fault)

\* cache.cleanPartials(maxAgeMs) called once, at time now, on the tree the
\* transfers left; no file is newer than now
CleanPartials(now, maxAge, fault) ==
  /\ sweep.result = "none"
  /\ \A s \in Slots : sweep.tree[s].mtime <= now
  /\ LET cutoff == now - maxAge
         after == cleanPartials(sweep.tree, cutoff, fault)
     IN sweep' = [tree |-> after, result |-> "returned",
                  cutoff |-> cutoff, fault |-> fault,
                  removed |-> {s \in Slots : sweep.tree[s].meta /\ ~after[s].meta}]
  /\ UNCHANGED <<dlVars, cacheVars, multi, portVars, uiVars, appVars>>

\* the trees transfers can leave behind
SweepInit ==
  /\ DlIdle /\ CacheIdle
  /\ \E t \in [Slots -> Entries] :
       /\ Cardinality({s \in Slots : t[s] # NoEntry}) <= MaxEntries
       /\ sweep = [SweepIdle EXCEPT !.tree = t]
  /\ multi = MultiNone
  /\ PortIdle
  /\ UiIdle

NextSweep ==
  \E now \in 0..(MaxStamp + 1), maxAge \in 0..(MaxStamp + 1) :
    \E fault \in Faults(sweep.tree) : CleanPartials(now, maxAge, fault)

SpecSweep == SweepInit /\ [][NextSweep]_vars

\* C12: a cleanPartials(maxAge) call in which no filesystem call fails
\* removes every sidecar older than now - maxAge together with its data
\* file, and leaves every other sidecar, its partial data file, and every
\* data file without a sidecar exactly as they were.
C12_CleanPartials ==
  [][\A now \in 0..(MaxStamp + 1), maxAge \in 0..(MaxStamp + 1) :
       CleanPartials(now, maxAge, NoFault) =>
         \A s \in Slots :
           IF sweep.tree[s].meta /\ sweep.tree[s].mtime < now - maxAge
             THEN sweep'.tree[s] = NoEntry
             ELSE sweep'.tree[s] = sweep.tree[s]]_vars

\* one sweep removed a stale sidecar and kept a partial file whose sidecar
\* is exactly maxAge old
C12_StaleRemovedFreshKept ==
  /\ sweep.result = "returned" /\ sweep.fault = NoFault
  /\ sweep.removed # {}
  /\ \E s \in Slots : sweep.tree[s].meta /\ sweep.tree[s].data
                        /\ sweep.tree[s].mtime = sweep.cutoff

(***************************************************************************)
(* evict() with one filesystem call that throws.                           *)
(***************************************************************************)
EvictFaultKinds == {"stat", "rm"}

\* position of folder f in the sorted list q
IndexOf(q, f) == CHOOSE i \in 1..Len(q) : q[i] = f

\* the directories left when evict() throws at folder f: statSync throws
\* inside map(), before anything is deleted; rmSync throws inside the while
\* loop, after the folders behind f in the list were popped and deleted
evictThrowing(dirs, q, max, f, kind) ==
  IF kind = "stat" THEN dirs
  ELSE [g \in Folders |->
          IF dirs[g].ex /\ IndexOf(q, g) > IndexOf(q, f) THEN NoFolder ELSE dirs[g]]

\* cache.evict() throws out of downloadAndExtract, which rejects
InstallEvictFails(q, f, kind) ==
  /\ inst.pc = "evict"
  /\ q \in NewestFirst(cache.dirs)
  /\ f \in Existing(cache.dirs)
  /\ kind \in EvictFaultKinds
  /\ kind = "rm" => f \notin Survivors(q, cache.max)
  /\ cache' = [cache EXCEPT !.dirs = evictThrowing(cache.dirs, q, cache.max, f, kind)]
  /\ inst' = [IdleInst EXCEPT !.result = "evict threw"]
  /\ UNCHANGED <<dlVars, extVars>>

NextCacheFaults ==
  \/ NextCache
  \/ \E q \in Orders(Existing(cache.dirs)), f \in Folders, kind \in EvictFaultKinds :
       InstallEvictFails(q, f, kind)

SpecCacheFaults == CacheInit /\ [][NextCacheFaults]_vars

\* C11 for cleanPartials: when the stat or the delete of one entry fails,
\* cleanPartials returns normally and every other stale sidecar is removed
\* with its data file.
C11_CleanPartialsBestEffort ==
  [][\A now \in 0..(MaxStamp + 1), maxAge \in 0..(MaxStamp + 1) :
       \A fault \in {x \in Faults(sweep.tree) : x.kind \in EntryFaultKinds} :
         CleanPartials(now, maxAge, fault) =>
           /\ sweep'.result = "returned"
           /\ \A s \in Slots \ {<<fault.f, fault.n>>} :
                IsStale(sweep.tree[s], now - maxAge) => sweep'.tree[s] = NoEntry]_vars

\* the stat of one stale sidecar failed and the other stale pair is gone
C11_OtherEntrySwept ==
  /\ sweep.result = "returned" /\ sweep.fault.kind = "stat"
  /\ sweep.tree[<<sweep.fault.f, sweep.fault.n>>].meta
  /\ sweep.tree[<<sweep.fault.f, sweep.fault.n>>].mtime < sweep.cutoff
  /\ sweep.removed # {}

\* C11: in evict() and in cleanPartials(), when the stat or the delete of one
\* entry fails the call still returns normally (the install goes on to
\* extract) and every other entry that qualifies for deletion is deleted.
C11_BestEffortSweeps ==
  /\ C11_CleanPartialsBestEffort
  /\ [][\A q \in Orders(Existing(cache.dirs)), f \in Folders, kind \in EvictFaultKinds :
          InstallEvictFails(q, f, kind) =>
            /\ inst'.pc = "extract"
            /\ Existing(cache'.dirs) \subseteq Survivors(q, cache.max) \cup {f}]_vars

(***************************************************************************)
(* The installer (main/lib/installer.ts) with artifact sizes: repeated     *)
(* downloadAndExtract calls for two cache keys.                            *)
(***************************************************************************)
InstallKeys == {1, 2}

SingleInit ==
  /\ DlIdle
  /\ cache \in {EmptyCache(max) : max \in 1..MaxKeep}
  /\ inst = IdleInst
  /\ ExtIdle

NextSingle ==
  \/ \E k \in InstallKeys, expectedSize \in Sizes : InstallStart(k, expectedSize)
  \/ \E size \in 1..MaxSize : InstallDownloadOk(size)
  \/ InstallDownloadFail
  \/ InstallTouch
  \/ InstallEvict
  \/ \E ok \in BOOLEAN : InstallExtract(ok)
  \/ Tick

SpecSingle == SingleInit /\ [][NextSingle]_vars

\* the calls of a downloadAndExtract that found the artifact in the cache
CachedRun == <<"progress 100", "touch", "extract">>
\* the calls of a downloadAndExtract that had to download
DownloadRun == <<"progress 0", "download", "resolved", "touch", "evict", "extract">>

\* file present, no sidecar, size equal to expectedSize when one is given
ArtifactComplete(d, expectedSize) ==
  /\ d.ex /\ d.art = "complete"
  /\ expectedSize # 0 => d.size = expectedSize

\* C13: downloadAndExtract takes the cached branch exactly when the cached
\* artifact is complete; then it reports download 100, touches the key and
\* calls neither download nor evict; otherwise it calls download, and only
\* after download resolved it touches the key and then calls evict once; in
\* both cases extract is called once, after those steps.
C13_SingleInstallOrdering ==
  /\ [][\A k \in InstallKeys, expectedSize \in Sizes :
          InstallStart(k, expectedSize) =>
            inst'.log = IF ArtifactComplete(cache.dirs[k], expectedSize)
                          THEN <<"progress 100">>
                          ELSE <<"progress 0", "download">>]_vars
  /\ [](inst.pc # "idle" =>
          \/ IsPrefix(inst.log, CachedRun)
          \/ IsPrefix(inst.log, DownloadRun))
  /\ [](inst.pc = "extract" => inst.log \in {CachedRun, DownloadRun})
  /\ [](inst.result \in {"resolved", "extract rejected"} =>
          inst.log \in {CachedRun, DownloadRun})

\* a complete artifact of the expected size was found in the cache, which
\* an earlier call had to download
C13_BothBranchesTaken ==
  /\ inst.pc = "extract" /\ inst.log = CachedRun /\ inst.expectedSize = 2
  /\ cache.dirs[inst.key].size = 2

\* C18: when extract rejects, the cached artifact is still present, complete
\* and without a sidecar, and the next downloadAndExtract call with the same
\* arguments takes the cached branch: it reports download 100 and does not
\* call download.
C18_ExtractFailureKeepsCache ==
  /\ [][InstallExtract(FALSE) =>
          ArtifactComplete(cache'.dirs[inst.key], inst.expectedSize)]_vars
  /\ [][(inst.result = "extract rejected"
           /\ InstallStart(inst.key, inst.expectedSize)) =>
          inst'.log = <<"progress 100">>]_vars

\* the same, for the calls that found the artifact in the cache
C18_CachedRunKeepsCache ==
  /\ [][(InstallExtract(FALSE) /\ inst.log = CachedRun) =>
          ArtifactComplete(cache'.dirs[inst.key], inst.expectedSize)]_vars
  /\ [][(inst.result = "extract rejected" /\ inst.log = CachedRun
           /\ InstallStart(inst.key, inst.expectedSize)) =>
          inst'.log = <<"progress 100">>]_vars

(***************************************************************************)
(* downloadAndExtractMulti (main/lib/installer.ts).  A filename is the     *)
(* sequence of its characters.                                             *)
(***************************************************************************)
Chars == {".", "0", "1", "2", "3", "4", "a", "b"}

\* the place of a character in the collation localeCompare uses:
\* punctuation, then digits, then letters
Rank(c) ==
  CASE c = "." -> 1
    [] c = "0" -> 2
    [] c = "1" -> 3
    [] c = "2" -> 4
    [] c = "3" -> 5
    [] c = "4" -> 6
    [] c = "a" -> 7
    [] c = "b" -> 8

RECURSIVE localeCompare(_, _)
\* a.localeCompare(b): negative, zero or positive
localeCompare(a, b) ==
  IF a = <<>> /\ b = <<>> THEN 0
  ELSE IF a = <<>> THEN 0 - 1
  ELSE IF b = <<>> THEN 1
  ELSE IF Rank(Head(a)) < Rank(Head(b)) THEN 0 - 1
  ELSE IF Rank(Head(a)) > Rank(Head(b)) THEN 1
  ELSE localeCompare(Tail(a), Tail(b))

\* the list with x put behind the last element that does not sort after it
\* (Array.prototype.sort is stable)
InsertSorted(sorted, x) ==
  LET before == {j \in 1..Len(sorted) :
                   \A k \in 1..j : localeCompare(sorted[k].name, x.name) <= 0}
      n == Cardinality(before)
  IN SubSeq(sorted, 1, n) \o <<x>> \o SubSeq(sorted, n + 1, Len(sorted))

RECURSIVE SortFiles(_)
\* [...files].sort((a, b) => a.filename.localeCompare(b.filename))
SortFiles(files) ==
  IF files = <<>> THEN <<>>
  ELSE InsertSorted(SortFiles(SubSeq(files, 1, Len(files) - 1)), files[Len(files)])

\* a test that takes any name ending in 001, dot or no dot
EndsWith001NoDot(name) ==
  Len(name) >= 3 /\ SubSeq(name, Len(name) - 2, Len(name)) = <<"0", "0", "1">>

\* /\.001$/.test(filename)
EndsWith001(name) ==
  Len(name) >= 4 /\ SubSeq(name, Len(name) - 3, Len(name)) = <<".", "0", "0", "1">>

\* the filename handed to extract
extractFile(files) ==
  IF Len(files) = 1 THEN files[1].name
  ELSE LET sorted == SortFiles(files)
           hits == {j \in 1..Len(sorted) : EndsWith001(sorted[j].name)}
       IN IF hits # {}
            THEN sorted[CHOOSE j \in hits : \A k \in hits : j <= k].name
            ELSE files[1].name

\* Math.round((n / d) * 100)
RoundPercent(n, d) == (200 * n + d) \div (2 * d)

\* sum of f.size || 0 over the list
RECURSIVE SumSizes(_)
SumSizes(files) ==
  IF files = <<>> THEN 0 ELSE files[1].size + SumSizes(Tail(files))

\* a file of the cache folder as isCacheValid(fileCachePath, file.size) sees it
fileCacheValid(h, size) ==
  /\ h.art = "complete"
  /\ size > 0 => h.size = size

\* an entry of the call log
Ev(e, i) == [ev |-> e, i |-> i]

\* the cache folder of the call
MultiKey == 1

\* a tail that evicts before it touches
AfterLoopEvictFirst(m) ==
  (IF m.allCached THEN <<>> ELSE <<Ev("evict", 0)>>)
    \o <<Ev("touch", 0), Ev("extract", 0)>>

\* the calls behind the loop: cache.touch(cacheDir), cache.evict() unless
\* every file was cached, extract
AfterLoop(m) ==
  <<Ev("touch", 0)>> \o (IF m.allCached THEN <<>> ELSE <<Ev("evict", 0)>>)
    \o <<Ev("extract", 0)>>

RECURSIVE RunLoop(_, _)
\* the for loop from file i up to the next await: cached files are counted
\* and reported; the first file that is not cached is downloaded; behind the
\* last file come cache.touch, cache.evict and the call of extract
RunLoop(m, i) ==
  LET count == Len(m.files)
      totalBytes == SumSizes(m.files)
  IN IF i > count
       THEN [m EXCEPT !.pc = "extract", !.i = i,
                      !.extractFile = extractFile(m.files),
                      !.log = m.log \o AfterLoop(m)]
     ELSE IF fileCacheValid(m.have[i], m.files[i].size)
       THEN LET done == m.completedBytes + m.files[i].size
                percent == IF totalBytes > 0 THEN RoundPercent(done, totalBytes)
                                            ELSE RoundPercent(i, count)
            IN RunLoop([m EXCEPT !.completedBytes = done,
                                 !.percents = Append(m.percents, percent),
                                 !.log = Append(m.log, Ev("cached", i))], i + 1)
     ELSE LET basePercent == IF totalBytes > 0
                               THEN RoundPercent(m.completedBytes, totalBytes)
                               ELSE RoundPercent(i - 1, count)
          IN [m EXCEPT !.pc = "download", !.i = i, !.allCached = FALSE, !.recv = 0,
                       !.progressed = FALSE, !.total = 0,
                       !.percents = Append(m.percents, basePercent),
                       !.log = Append(m.log, Ev("download", i))]

\* the transfer engine starts counting at the size of the partial file when
\* it resumes
Resumed(m, resume) ==
  IF m.pc = "download" /\ resume /\ m.have[m.i].art = "partial"
    THEN [m EXCEPT !.recv = m.have[m.i].size]
    ELSE m

\* cache.touch(cacheDir); if (!allCached) cache.evict(), once the loop is over
MultiCache(m, q) ==
  IF m.pc # "extract" THEN cache
  ELSE LET touched == touch(cache.dirs, MultiKey, cache.now)
       IN [cache EXCEPT !.dirs = IF m.allCached THEN touched
                                  ELSE evict(touched, q, cache.max)]

\* downloadAndExtractMulti(files, dest, cacheDir, ctx) up to its first await
MultiStart(resume) ==
  /\ multi.pc = "idle"
  /\ LET made == mkdir(cache.dirs, MultiKey, cache.now)
         m == Resumed(RunLoop(multi, 1), resume)
     IN /\ multi' = m
        /\ \E q \in NewestFirst(made) :
             cache' = IF m.pc = "extract"
                        THEN [cache EXCEPT !.dirs =
                                IF m.allCached THEN touch(made, MultiKey, cache.now)
                                ELSE evict(touch(made, MultiKey, cache.now), q, cache.max)]
                        ELSE [cache EXCEPT !.dirs = made]
  /\ UNCHANGED <<dlVars, inst, sweep, portVars, uiVars, appVars>>

\* p.percent of the engine with r bytes received:
\* effectiveTotal > 0 ? Math.round((receivedBytes / effectiveTotal) * 100) : 0
EnginePercent(r, effectiveTotal) ==
  IF effectiveTotal > 0 THEN RoundPercent(r, effectiveTotal) ELSE 0

\* a percent that starts again at 0 with every file
ProgressPercentPerFile(m, receivedBytes, pp) == pp

\* the percent of the onProgress callback: over the bytes of the whole call
\* when sizes are declared, else over the number of files
ProgressPercent(m, receivedBytes, pp) ==
  LET count == Len(m.files)
      totalBytes == SumSizes(m.files)
      receivedTotal == m.completedBytes + receivedBytes
  IN IF totalBytes > 0
       THEN RoundPercent(receivedTotal, totalBytes)
       ELSE RoundPercent(100 * (m.i - 1) + pp, 100 * count)

\* the onProgress callback of the running download, n more bytes received;
\* total is the size the response headers announced (0: none), the same for
\* every chunk of the response and never less than what the response brings
MultiProgress(n, pp) ==
  /\ multi.pc = "download"
  /\ \E total \in 0..MaxSize :
       LET file == multi.files[multi.i]
           receivedBytes == multi.recv + n
           effectiveTotal == IF file.size > 0 THEN file.size ELSE total
           percent == ProgressPercent(multi, receivedBytes, pp)
       IN /\ multi.progressed => total = multi.total
          /\ file.size > 0 => total \in {0, file.size}
          /\ total > 0 => receivedBytes <= total
          /\ receivedBytes <= (IF file.size > 0 THEN file.size + 1 ELSE MaxSize)
          /\ pp = EnginePercent(receivedBytes, effectiveTotal)
          /\ multi' = [multi EXCEPT !.recv = receivedBytes, !.progressed = TRUE,
                                    !.total = total,
                                    !.percents = Append(multi.percents, percent)]
  /\ UNCHANGED <<dlVars, cacheVars, sweep, portVars, uiVars, appVars>>

\* a loop that goes on with the next file after a rejected download
AfterMultiRejectedContinuing(m, left) ==
  RunLoop([m EXCEPT !.have[m.i] = left,
                    !.log = Append(m.log, Ev("rejected", m.i))], m.i + 1)

\* await download(...) throws out of the loop and out of the function
AfterMultiRejected(m, left) ==
  [m EXCEPT !.pc = "done", !.result = "download rejected", !.have[m.i] = left,
            !.log = Append(m.log, Ev("rejected", m.i))]

\* await download(...) resolves: the file has the declared size; or, without
\* any request made, the size of the partial file the engine found already at
\* its sidecar's recorded size
MultiDownloadResolved(resume) ==
  /\ multi.pc = "download"
  /\ LET file == multi.files[multi.i]
         h == multi.have[multi.i]
         early == h.art = "partial" /\ ~multi.progressed
         size == IF early THEN h.size ELSE multi.recv
     IN /\ \/ file.size = 0
           \/ multi.recv = file.size /\ multi.progressed
           \/ early
        /\ LET m == Resumed(RunLoop(
                       [multi EXCEPT !.have[multi.i] = [art |-> "complete", size |-> size],
                                     !.completedBytes = multi.completedBytes + file.size,
                                     !.log = Append(multi.log, Ev("resolved", multi.i))],
                       multi.i + 1), resume)
           IN /\ multi' = m
              /\ \E q \in NewestFirst(cache.dirs) : cache' = MultiCache(m, q)
  /\ UNCHANGED <<dlVars, inst, sweep, portVars, uiVars, appVars>>

\* await download(...) rejects; the engine leaves the file as it was, a
\* partial file with its sidecar, or nothing
MultiDownloadRejected ==
  /\ multi.pc = "download"
  /\ \E left \in {multi.have[multi.i], [art |-> "none", size |-> 0]}
                  \cup (IF multi.recv > 0
                          THEN {[art |-> "partial", size |-> multi.recv]} ELSE {}) :
       multi' = AfterMultiRejected(multi, left)
  /\ UNCHANGED <<dlVars, cacheVars, sweep, portVars, uiVars, appVars>>

\* await extract(...) settles
MultiExtractSettled(ok) ==
  /\ multi.pc = "extract"
  /\ multi' = [multi EXCEPT !.pc = "done",
                            !.result = IF ok THEN "resolved" ELSE "extract rejected"]
  /\ UNCHANGED <<dlVars, cacheVars, sweep, portVars, uiVars, appVars>>

\* filenames the entry point is chosen from
NamePool ==
  { <<"b", ".", "0", "0", "1">>, <<"a", ".", "0", "0", "1">>,
    <<"a", ".", "0", "0", "2">>, <<"a", "0", "0", "1">> }

\* the parts of a split archive: a.001, a.002, ...
Digits == <<"1", "2", "3", "4">>
PartName(i) == <<"a", ".", "0", "0", Digits[i]>>

\* what the cache folder can hold for one file
Presence ==
  {[art |-> "none", size |-> 0]}
    \cup [art : {"partial", "complete"}, size : 1..MaxSize]

\* a call with arbitrary distinct names and one-byte files, or a call for the
\* parts of a split archive with arbitrary declared sizes (0: none declared)
MultiRequests ==
  UNION {
    { [MultiNone EXCEPT !.pc = "idle", !.files = f, !.have = h] :
        f \in {g \in [1..n -> [name : NamePool, size : {1}]] :
                 \A j, k \in 1..n : j # k => g[j].name # g[k].name},
        h \in [1..n -> {[art |-> "none", size |-> 0], [art |-> "complete", size |-> 1]}] }
    \cup
    { [MultiNone EXCEPT !.pc = "idle", !.files = f, !.have = h] :
        f \in {g \in [1..n -> [name : {PartName(j) : j \in 1..n}, size : Sizes]] :
                 \A j \in 1..n : g[j].name = PartName(j)},
        h \in [1..n -> Presence] }
    : n \in 1..MaxFiles }

MultiInit ==
  /\ DlIdle /\ CacheIdle
  /\ sweep = SweepIdle
  /\ PortIdle
  /\ UiIdle
  /\ multi \in MultiRequests

NextMulti ==
  \/ \E resume \in BOOLEAN : MultiStart(resume)
  \/ \E n \in 1..MaxSize, pp \in 0..200 : MultiProgress(n, pp)
  \/ \E resume \in BOOLEAN : MultiDownloadResolved(resume)
  \/ MultiDownloadRejected
  \/ \E ok \in BOOLEAN : MultiExtractSettled(ok)

SpecMulti == MultiInit /\ [][NextMulti]_vars

\* C14: in a downloadAndExtractMulti call whose files all declare a positive
\* size, the download percents passed to sendProgress never decrease, across
\* file boundaries and cached files included.
C14_ProgressMonotone ==
  (\A j \in 1..Len(multi.files) : multi.files[j].size > 0) =>
    \A j, k \in 1..Len(multi.percents) :
      j < k => multi.percents[j] <= multi.percents[k]

\* a two-file call: the first file cached, the second downloaded in two
\* chunks, then extract
C14_ProgressAcrossFiles ==
  /\ multi.pc = "extract" /\ Len(multi.files) = 2
  /\ \A j \in 1..2 : multi.files[j].size > 0
  /\ multi.log[1] = Ev("cached", 1) /\ multi.log[2] = Ev("download", 2)
  /\ Len(multi.percents) = 4 /\ multi.percents[4] = 100

\* the calls made for file i: found cached, or downloaded to the end
HandledCached(i) == <<Ev("cached", i)>>
HandledDownloaded(i) == <<Ev("download", i), Ev("resolved", i)>>

RECURSIVE FilesInOrder(_, _)
\* the logs of n files handled one after the other, for the choices c
FilesInOrder(c, n) ==
  IF n = 0 THEN <<>>
  ELSE FilesInOrder(c, n - 1)
         \o (IF c[n] = "cached" THEN HandledCached(n) ELSE HandledDownloaded(n))

\* the whole log of a call: the files in list order, then touch, then evict
\* if something was downloaded, then extract
OrderedRun(c, n) ==
  FilesInOrder(c, n) \o <<Ev("touch", 0)>>
    \o (IF \E j \in 1..n : c[j] = "download" THEN <<Ev("evict", 0)>> ELSE <<>>)
    \o <<Ev("extract", 0)>>

OrderedRuns(n) == {OrderedRun(c, n) : c \in [1..n -> {"cached", "download"}]}

\* C15: downloadAndExtractMulti handles the files strictly in list order, a
\* download starting only when every earlier file was found cached or has
\* resolved; evict is called at most once, after the last file and after
\* touch; extract is called once, after that.
C15_MultiOrdering ==
  LET n == Len(multi.files)
      log == IF multi.result = "download rejected"
               THEN SubSeq(multi.log, 1, Len(multi.log) - 1) ELSE multi.log
  IN /\ multi.pc \in {"download", "extract", "done"} =>
          \E run \in OrderedRuns(n) : IsPrefix(log, run)
     /\ (multi.pc = "extract" \/ multi.result \in {"resolved", "extract rejected"}) =>
          multi.log \in OrderedRuns(n)
     /\ multi.pc = "download" => multi.log[Len(multi.log)] = Ev("download", multi.i)
     /\ multi.pc = "extract" => \A j \in 1..n : multi.have[j].art = "complete"

\* two files downloaded one after the other, then touch, evict, extract
C15_TwoDownloadsInOrder ==
  /\ multi.pc = "extract"
  /\ multi.log = <<Ev("download", 1), Ev("resolved", 1), Ev("download", 2),
                    Ev("resolved", 2), Ev("touch", 0), Ev("evict", 0),
                    Ev("extract", 0)>>

\* the name ends in ".001"
EndsInPart001(name) ==
  \E stem \in {SubSeq(name, 1, k) : k \in 0..Len(name)} :
    name = stem \o <<".", "0", "0", "1">>

\* a sorts before b, or is b, in filename order
NameLeq(a, b) == localeCompare(a, b) <= 0

\* C16: the one path handed to extract is the only file of a one-file list;
\* otherwise the first name in filename order among those ending in ".001";
\* and the first file of the list as given when no name ends in ".001".
C16_ExtractionEntryPoint ==
  multi.pc = "extract" =>
    LET names == {multi.files[j].name : j \in 1..Len(multi.files)}
        parts == {x \in names : EndsInPart001(x)}
    IN multi.extractFile =
         IF Len(multi.files) = 1 THEN multi.files[1].name
         ELSE IF parts # {} THEN CHOOSE x \in parts : \A y \in parts : NameLeq(x, y)
         ELSE multi.files[1].name

\* b.001 is first in the list and a.001 is the entry point
C16_SortedPartChosen ==
  /\ multi.pc = "extract" /\ Len(multi.files) = 2
  /\ multi.files[1].name = <<"b", ".", "0", "0", "1">>
  /\ multi.extractFile = <<"a", ".", "0", "0", "1">>

\* a001 and a.002: no name ends in ".001", the first file is the entry point
C16_FallbackToFirst ==
  /\ multi.pc = "extract" /\ Len(multi.files) = 2
  /\ multi.files[1].name = <<"a", ".", "0", "0", "2">>
  /\ multi.files[2].name = <<"a", "0", "0", "1">>
  /\ multi.extractFile = <<"a", ".", "0", "0", "2">>

(***************************************************************************)
(* The installer as a whole: a run of downloadAndExtract calls, or one     *)
(* downloadAndExtractMulti call.                                           *)
(***************************************************************************)
InstallInit ==
  \/ SingleInit
  \/ MultiInit /\ inst = IdleInst

NextInstall ==
  \/ multi.pc = "none" /\ NextSingle
  \/ NextMulti

SpecInstall == InstallInit /\ [][NextInstall]_vars

\* the calls that only a call whose downloads all resolved makes
AfterDownloads == {"touch", "evict", "extract"}

\* C17: when a download rejects, downloadAndExtract and
\* downloadAndExtractMulti reject with it: extract is never called, no later
\* file is downloaded, evict is not called, and what the cache folder
\* already held stays in place.
C17_DownloadFailureAborts ==
  /\ [][InstallDownloadFail =>
          /\ inst'.pc = "idle" /\ inst'.result = "download rejected"
          /\ \A j \in 1..Len(inst'.log) : inst'.log[j] \notin AfterDownloads
          /\ cache'.dirs[inst.key].ex
          /\ \A f \in Folders \ {inst.key} : cache'.dirs[f] = cache.dirs[f]]_vars
  /\ [][MultiDownloadRejected =>
          /\ multi'.pc = "done" /\ multi'.result = "download rejected"
          /\ \A j \in 1..Len(multi'.log) :
               /\ multi'.log[j].ev \notin AfterDownloads
               /\ multi'.log[j].i <= multi.i
          /\ \A j \in 1..Len(multi.files) : j # multi.i => multi'.have[j] = multi.have[j]
          /\ cache' = cache]_vars
  /\ [][multi.result = "download rejected" => multi' = multi]_vars

\* the second download of a two-file call was rejected; the first file,
\* downloaded by the same call, is still in the cache folder
C17_SecondDownloadRejected ==
  /\ multi.result = "download rejected" /\ Len(multi.files) = 2
  /\ multi.log = <<Ev("download", 1), Ev("resolved", 1), Ev("download", 2),
                    Ev("rejected", 2)>>
  /\ multi.have[1].art = "complete"

(***************************************************************************)
(* Port lock files (process.ts): <lockDir>/port-<N>.json holds             *)
(* {pid, installationName, timestamp}.                                     *)
(***************************************************************************)
\* what a lock file can hold: unparsable text, the JSON text null, or a lock
\* record; pid 0 stands for a record whose pid is missing or zero
LockFiles ==
  {NoLockFile, [kind |-> "corrupt", pid |-> 0], NullLock}
    \cup [kind : {"lock"}, pid : 0..MaxPid]

\* a process is gone, runs as this user, or runs as another user
ProcStates == {"dead", "own", "foreign"}

\* process.kill(pid, 0): returns, or throws with a code
kill0(procs, pid) ==
  CASE procs[pid] = "own" -> "ok"
    [] procs[pid] = "foreign" -> "EPERM"
    [] OTHER -> "ESRCH"

\* a liveness test that takes every exception of process.kill for a dead process
isProcessAliveOwnOnly(procs, pid) == kill0(procs, pid) = "ok"

isProcessAlive(procs, pid) == kill0(procs, pid) \in {"ok", "EPERM"}

removePortLock(files, port) == [files EXCEPT ![port] = NoLockFile]

\* the value readPortLock returns and the lock directory it leaves
readPortLock(files, procs, port) ==
  LET f == files[port]
      none == [result |-> NullLock, files |-> files]
      stale == [result |-> NullLock, files |-> removePortLock(files, port)]
  IN CASE f.kind \in {"absent", "corrupt"} -> none
       [] f.kind = "null" -> stale
       [] f.pid = 0 -> stale
       [] ~isProcessAlive(procs, f.pid) -> stale
       [] OTHER -> [result |-> f, files |-> files]

WritePortLock(port, pid) ==
  /\ lock' = [lock EXCEPT !.files[port] = [kind |-> "lock", pid |-> pid]]
  /\ UNCHANGED <<dlVars, cacheVars, sweep, multi, probe, uiVars, appVars>>

ReadPortLock(port) ==
  /\ LET r == readPortLock(lock.files, lock.procs, port)
     IN lock' = [lock EXCEPT !.files = r.files,
                             !.read = [port |-> port, was |-> lock.files[port],
                                       result |-> r.result]]
  /\ UNCHANGED <<dlVars, cacheVars, sweep, multi, probe, uiVars, appVars>>

RemovePortLock(port) ==
  /\ lock' = [lock EXCEPT !.files = removePortLock(lock.files, port)]
  /\ UNCHANGED <<dlVars, cacheVars, sweep, multi, probe, uiVars, appVars>>

\* a process starts or exits
ProcessChange(pid, st) ==
  /\ lock.procs[pid] # st
  /\ lock' = [lock EXCEPT !.procs[pid] = st]
  /\ UNCHANGED <<dlVars, cacheVars, sweep, multi, probe, uiVars, appVars>>

\* a lock directory left by earlier runs and other launcher instances
LockInit ==
  /\ DlIdle /\ CacheIdle
  /\ sweep = SweepIdle /\ multi = MultiNone /\ probe = ProbeIdle /\ UiIdle
  /\ \E files \in [LockPorts -> LockFiles], procs \in [Pids -> ProcStates] :
       lock = [files |-> files, procs |-> procs, read |-> NoRead, reader |-> ReaderIdle]

NextPortLock ==
  \/ \E port \in LockPorts, pid \in Pids : WritePortLock(port, pid)
  \/ \E port \in LockPorts : ReadPortLock(port)
  \/ \E port \in LockPorts : RemovePortLock(port)
  \/ \E pid \in Pids, st \in ProcStates : ProcessChange(pid, st)

SpecPortLock == LockInit /\ [][NextPortLock]_vars

\* C19: readPortLock(port) on a lock file that records the pid of a process
\* that no longer exists returns null and deletes the file in the same call;
\* when the recorded pid is alive it returns the lock and leaves the file.
C19_PortLockStaleness ==
  [][\A port \in LockPorts :
       (ReadPortLock(port) /\ lock.files[port].kind = "lock" /\ lock.files[port].pid > 0) =>
         LET f == lock.files[port]
         IN /\ lock.procs[f.pid] = "dead" =>
                 /\ lock'.read.result = NullLock
                 /\ lock'.files[port] = NoLockFile
            /\ lock.procs[f.pid] # "dead" =>
                 /\ lock'.read.result = f
                 /\ lock'.files[port] = f
            /\ \A other \in LockPorts \ {port} : lock'.files[other] = lock.files[other]]_vars

\* a read found the lock of a dead process and the file is gone, while the
\* lock of a process running as another user was returned and kept
C19_StaleLockDeleted ==
  /\ lock.read.was.kind = "lock" /\ lock.read.was.pid > 0
  /\ lock.read.result = NullLock
  /\ lock.files[lock.read.port] = NoLockFile
  /\ \E other \in LockPorts :
       /\ lock.files[other].kind = "lock" /\ lock.files[other].pid > 0
       /\ lock.procs[lock.files[other].pid] = "foreign"

(***************************************************************************)
(* findAvailablePort (process.ts): bind a throwaway listener on each port  *)
(* of the range in turn.                                                   *)
(***************************************************************************)
ProbePorts == 0..MaxPort

\* a range check that leaves out the last port of the range
tryPortBeforeEnd(pr, port) ==
  IF port >= pr.endPort
    THEN [pr EXCEPT !.pc = "done", !.result = "no available ports"]
    ELSE [pr EXCEPT !.pc = "listen", !.port = port]

\* tryPort(port): reject past the end of the range, else createServer and
\* listen
tryPort(pr, port) ==
  IF port > pr.endPort
    THEN [pr EXCEPT !.pc = "done", !.result = "no available ports"]
    ELSE [pr EXCEPT !.pc = "listen", !.port = port]

FindAvailablePort(startPort, endPort) ==
  /\ probe.pc = "idle"
  /\ probe' = tryPort([probe EXCEPT !.startPort = startPort, !.endPort = endPort],
                      startPort)
  /\ UNCHANGED <<dlVars, cacheVars, sweep, multi, lock, uiVars, appVars>>

\* the listening callback: the bind succeeded; server.close()
ProbeListening ==
  /\ probe.pc = "listen"
  /\ probe.port \notin probe.bound
  /\ probe' = [probe EXCEPT !.pc = "closing",
                            !.tried = Append(probe.tried, [port |-> probe.port, ok |-> TRUE])]
  /\ UNCHANGED <<dlVars, cacheVars, sweep, multi, lock, uiVars, appVars>>

\* the 'close' event of the server that was listening: resolve(port)
ProbeClosed ==
  /\ probe.pc = "closing"
  /\ probe' = [probe EXCEPT !.pc = "done", !.result = "resolved"]
  /\ UNCHANGED <<dlVars, cacheVars, sweep, multi, lock, uiVars, appVars>>

\* the 'error' event of the server: EADDRINUSE for a port another listener
\* holds, or another error of listen (EACCES, EADDRNOTAVAIL) for any port
ProbeError(code) ==
  /\ probe.pc = "listen"
  /\ code = "EADDRINUSE" => probe.port \in probe.bound
  /\ probe' = tryPort([probe EXCEPT !.tried = Append(probe.tried,
                                        [port |-> probe.port, ok |-> FALSE]),
                                    !.steady = probe.steady /\ code = "EADDRINUSE"],
                      probe.port + 1)
  /\ UNCHANGED <<dlVars, cacheVars, sweep, multi, lock, uiVars, appVars>>

\* another process binds or releases a port while the probes run
BoundChange(port) ==
  /\ probe.pc \in {"listen", "closing"}
  /\ probe' = [probe EXCEPT !.bound = IF port \in probe.bound THEN probe.bound \ {port}
                                       ELSE probe.bound \cup {port},
                            !.steady = FALSE]
  /\ UNCHANGED <<dlVars, cacheVars, sweep, multi, lock, uiVars, appVars>>

\* any set of ports is bound when findAvailablePort is called
ProbeInit ==
  /\ DlIdle /\ CacheIdle
  /\ sweep = SweepIdle /\ multi = MultiNone /\ lock = LockIdle /\ UiIdle
  /\ \E bound \in SUBSET ProbePorts : probe = [ProbeIdle EXCEPT !.bound = bound]

NextPort ==
  \/ \E startPort, endPort \in ProbePorts : FindAvailablePort(startPort, endPort)
  \/ ProbeListening
  \/ ProbeClosed
  \/ \E code \in {"EADDRINUSE", "EACCES"} : ProbeError(code)
  \/ \E port \in ProbePorts : BoundChange(port)

SpecPort == ProbeInit /\ [][NextPort]_vars

\* the probes made so far are startPort, startPort + 1, ... in this order,
\* and all but the last have failed
ProbedInOrder ==
  \A j \in 1..Len(probe.tried) :
    /\ probe.tried[j].port = probe.startPort + j - 1
    /\ probe.tried[j].port <= probe.endPort
    /\ probe.tried[j].ok => j = Len(probe.tried)

\* the ports of the range that no other listener holds
FreeInRange == (probe.startPort..probe.endPort) \ probe.bound

\* C20: findAvailablePort probes startPort, startPort + 1, ..., endPort in
\* increasing order, one at a time; it resolves with the first port whose
\* bind succeeded, never with a port outside the range; when every port of
\* the range fails, or startPort > endPort, it rejects with the 'no available
\* ports' error; with no change in the bound ports and only busy ports
\* failing, the port it resolves with is the lowest free port of the range.
C20_PortSelection ==
  /\ ProbedInOrder
  /\ probe.pc = "listen" =>
       /\ probe.port = probe.startPort + Len(probe.tried)
       /\ \A j \in 1..Len(probe.tried) : ~probe.tried[j].ok
  /\ probe.result = "resolved" =>
       /\ probe.port \in probe.startPort..probe.endPort
       /\ probe.tried[Len(probe.tried)] = [port |-> probe.port, ok |-> TRUE]
       /\ Len(probe.tried) = probe.port - probe.startPort + 1
  /\ probe.result = "no available ports" =>
       /\ Len(probe.tried) = (IF probe.startPort > probe.endPort THEN 0
                            ELSE probe.endPort - probe.startPort + 1)
       /\ \A j \in 1..Len(probe.tried) : ~probe.tried[j].ok
  /\ (probe.pc = "done" /\ probe.steady) =>
       IF FreeInRange = {}
         THEN probe.result = "no available ports"
         ELSE /\ probe.result = "resolved"
              /\ probe.port \in FreeInRange
              /\ \A q \in FreeInRange : probe.port <= q

\* the range has three ports, the first two are bound, and the call resolved
\* with the third
C20_ThirdPortReturned ==
  /\ probe.result = "resolved" /\ probe.steady
  /\ probe.endPort = probe.startPort + 2
  /\ probe.bound \cap (probe.startPort..probe.endPort)
       = {probe.startPort, probe.startPort + 1}
  /\ probe.port = probe.endPort

(***************************************************************************)
(* setPortArg (process.ts): put the port into the launch command.          *)
(***************************************************************************)
\* the words of an argument list, and the ports a launch can be given
ArgWords == {"--port", "--listen", "8188", "9000"}
LaunchPorts == {8188, 9000}

\* String(port)
PortString(port) == IF port = 8188 THEN "8188" ELSE "9000"

\* args.indexOf(word), counted from 1; 0 when the word is not in the list
indexOf(args, word) ==
  IF \E j \in 1..Len(args) : args[j] = word
    THEN CHOOSE j \in 1..Len(args) :
           args[j] = word /\ \A k \in 1..(j - 1) : args[k] # word
    ELSE 0

\* a setPortArg that appends the pair without looking for one
setPortArgAppendOnly(launchCmd, port) ==
  [launchCmd EXCEPT !.args = launchCmd.args \o <<"--port", PortString(port)>>,
                    !.port = port]

\* the launch command after setPortArg(launchCmd, port)
setPortArg(launchCmd, port) ==
  LET portIdx == indexOf(launchCmd.args, "--port")
  IN [launchCmd EXCEPT
        !.args = IF portIdx >= 1 /\ portIdx + 1 <= Len(launchCmd.args)
                   THEN [launchCmd.args EXCEPT ![portIdx + 1] = PortString(port)]
                   ELSE launchCmd.args \o <<"--port", PortString(port)>>,
        !.port = port]

SetPortArg(port) ==
  /\ cmd.pc = "built"
  /\ cmd' = [setPortArg(cmd, port) EXCEPT !.pc = "set", !.before = cmd.args]
  /\ UNCHANGED <<dlVars, cacheVars, sweep, multi, portVars, wait, launch, xtr, store, appVars>>

\* a launch command with any argument list
CmdInit ==
  /\ DlIdle /\ CacheIdle
  /\ sweep = SweepIdle /\ multi = MultiNone /\ PortIdle
  /\ wait = WaitIdle /\ launch = LaunchIdle /\ xtr = XtrIdle /\ store = StoreIdle
  /\ AppIdle
  /\ \E n \in 0..MaxArgs : \E args \in [1..n -> ArgWords] :
       cmd = [CmdIdle EXCEPT !.pc = "built", !.args = args]

NextCmd == \E port \in LaunchPorts : SetPortArg(port)

SpecCmd == CmdInit /\ [][NextCmd]_vars

\* the positions of the '--port' flags of an argument list
PortFlags(args) == {j \in 1..Len(args) : args[j] = "--port"}

\* the list without the word at position j
Without(args, j) == SubSeq(args, 1, j - 1) \o SubSeq(args, j + 1, Len(args))

\* what C21 states of the call that has just returned
SetPortArgPost ==
  /\ cmd.port \in LaunchPorts
  /\ Cardinality(PortFlags(cmd.args)) = 1
  /\ \A j \in PortFlags(cmd.args) :
       /\ j + 1 <= Len(cmd.args)
       /\ cmd.args[j + 1] = PortString(cmd.port)
       /\ IF PortFlags(cmd.before) # {}
            THEN /\ Len(cmd.args) = Len(cmd.before)
                 /\ Without(cmd.args, j + 1) = Without(cmd.before, j + 1)
            ELSE cmd.args = cmd.before \o <<"--port", PortString(cmd.port)>>

\* C21: after setPortArg(launchCmd, port) the list holds exactly one '--port'
\* flag, followed by String(port); an existing pair has its value replaced in
\* place, otherwise the pair is appended; every other argument keeps its
\* value and place; launchCmd.port is port.
C21_SetPortArg == cmd.pc = "set" => SetPortArgPost

\* C21, amended: the same for every argument list that holds at most one
\* '--port' flag and, when it holds one, a word after it.
C21_SetPortArgOneFlag ==
  (/\ cmd.pc = "set"
   /\ Cardinality(PortFlags(cmd.before)) <= 1
   /\ \A j \in PortFlags(cmd.before) : j + 1 <= Len(cmd.before)) => SetPortArgPost

\* the value of an existing pair was replaced with another port, in a list
\* that holds another argument as well
C21_ValueReplacedInPlace ==
  /\ cmd.pc = "set" /\ Len(cmd.before) = 3
  /\ PortFlags(cmd.before) = {2}
  /\ cmd.before[3] # PortString(cmd.port)
  /\ cmd.args = [cmd.before EXCEPT ![3] = PortString(cmd.port)]

(***************************************************************************)
(* waitForPort / waitForUrl (process.ts): poll until a request is          *)
(* answered, the timeout passes, or the signal is found aborted.           *)
(***************************************************************************)
\* resolve / reject of the promise: only the first call settles it
settleWait(w, result) ==
  IF w.result = "none"
    THEN [w EXCEPT !.pc = "settled", !.result = result, !.abortedAtSettle = w.aborted]
    ELSE w

\* poll(): cancelled, timed out, or one more request
poll(w) ==
  IF w.aborted THEN settleWait(w, "cancelled")
  ELSE IF w.elapsed > w.timeoutMs THEN settleWait(w, "timed out")
  ELSE [w EXCEPT !.inflight = w.inflight + 1]

WaitFor(fn, timeoutMs, aborted) ==
  /\ wait.pc = "none"
  /\ wait' = poll([wait EXCEPT !.pc = "polling", !.fn = fn, !.timeoutMs = timeoutMs,
                               !.aborted = aborted])
  /\ UNCHANGED <<dlVars, cacheVars, sweep, multi, portVars, cmd, launch, xtr, store, appVars>>

\* the response callback of a request: resolve()
WaitResponse ==
  /\ wait.inflight > 0
  /\ wait' = settleWait([wait EXCEPT !.inflight = wait.inflight - 1], "reachable")
  /\ UNCHANGED <<dlVars, cacheVars, sweep, multi, portVars, cmd, launch, xtr, store, appVars>>

\* the 'error' event of a request: setTimeout(poll, intervalMs)
WaitRequestError ==
  /\ wait.inflight > 0
  /\ wait' = [wait EXCEPT !.inflight = wait.inflight - 1, !.timers = wait.timers + 1]
  /\ UNCHANGED <<dlVars, cacheVars, sweep, multi, portVars, cmd, launch, xtr, store, appVars>>

\* the 'timeout' event of a request: req.destroy() and setTimeout(poll,
\* intervalMs); the destroyed request may emit 'error' as well, which sets a
\* second timer
WaitRequestTimeout(errorToo) ==
  /\ wait.inflight > 0
  /\ errorToo => wait.inflight + wait.timers < MaxPending
  /\ wait' = [wait EXCEPT !.inflight = wait.inflight - 1,
                          !.timers = wait.timers + (IF errorToo THEN 2 ELSE 1)]
  /\ UNCHANGED <<dlVars, cacheVars, sweep, multi, portVars, cmd, launch, xtr, store, appVars>>

\* a timer fires: poll()
WaitPoll ==
  /\ wait.timers > 0
  /\ wait' = poll([wait EXCEPT !.timers = wait.timers - 1])
  /\ UNCHANGED <<dlVars, cacheVars, sweep, multi, portVars, cmd, launch, xtr, store, appVars>>

\* the caller aborts the signal
WaitAbort ==
  /\ wait.pc # "none"
  /\ ~wait.aborted
  /\ wait' = [wait EXCEPT !.aborted = TRUE]
  /\ UNCHANGED <<dlVars, cacheVars, sweep, multi, portVars, cmd, launch, xtr, store, appVars>>

\* time passes
WaitTick ==
  /\ wait.pc # "none"
  /\ wait.elapsed < MaxElapsed
  /\ wait' = [wait EXCEPT !.elapsed = wait.elapsed + 1]
  /\ UNCHANGED <<dlVars, cacheVars, sweep, multi, portVars, cmd, launch, xtr, store, appVars>>

WaitInit ==
  /\ DlIdle /\ CacheIdle
  /\ sweep = SweepIdle /\ multi = MultiNone /\ PortIdle
  /\ cmd = CmdIdle /\ wait = WaitIdle /\ launch = LaunchIdle
  /\ xtr = XtrIdle /\ store = StoreIdle /\ AppIdle

NextWait ==
  \/ \E fn \in {"waitForPort", "waitForUrl"}, timeoutMs \in 0..(MaxElapsed - 1),
        aborted \in BOOLEAN : WaitFor(fn, timeoutMs, aborted)
  \/ WaitResponse
  \/ WaitRequestError
  \/ \E errorToo \in BOOLEAN : WaitRequestTimeout(errorToo)
  \/ WaitPoll
  \/ WaitAbort
  \/ WaitTick

SpecWait == WaitInit /\ [][NextWait]_vars

\* C22: once the abort signal has fired, waitForPort / waitForUrl never
\* resolves as reachable: it rejects with 'Launch cancelled.', not with the
\* timeout error, even when a request already in flight is answered
\* afterwards and even when the timeout has elapsed as well.
C22_ReadinessCancellation ==
  (wait.pc = "settled" /\ wait.abortedAtSettle) => wait.result = "cancelled"

\* what does hold: a wait settled after the abort is never reported as timed
\* out, and a poll that runs after the abort rejects with the cancellation
C22_CancelBeforeTimeout ==
  (wait.pc = "settled" /\ wait.abortedAtSettle) => wait.result # "timed out"

(***************************************************************************)
(* A launch attempt: select a port, spawn, wait until reachable, write the *)
(* port lock.  The steps call findAvailablePort, waitForPort and           *)
(* writePortLock of process.ts.                                            *)
(***************************************************************************)
LaunchOrder ==
  <<"Idle", "PortSelection", "Spawning", "WaitingForReachable", "Ready", "Running">>

\* the attempt moves to the next state
Enter(l, state) == [l EXCEPT !.pc = state, !.trail = Append(l.trail, state)]

\* a step that writes the lock as soon as the process was spawned
afterSpawnWritesLock(l, files) == [files EXCEPT ![l.port] = [kind |-> "lock", pid |-> l.pid]]

\* the lock directory after the spawn step: nothing is written yet
afterSpawn(l, files) == files

LaunchBegin(startPort, endPort) ==
  /\ launch.pc = "Idle"
  /\ launch' = [LaunchIdle EXCEPT !.pc = "PortSelection",
                                  !.trail = <<"Idle", "PortSelection">>,
                                  !.filesAtBegin = lock.files]
  /\ probe' = tryPort([ProbeIdle EXCEPT !.bound = probe.bound, !.startPort = startPort,
                                        !.endPort = endPort], startPort)
  /\ UNCHANGED <<dlVars, cacheVars, sweep, multi, lock, cmd, wait, xtr, store, appVars>>

\* findAvailablePort settled
LaunchPortSettled ==
  /\ launch.pc = "PortSelection"
  /\ probe.pc = "done"
  /\ launch' = IF launch.cancelled \/ probe.result # "resolved"
                 THEN Enter(launch, "Idle")
                 ELSE Enter([launch EXCEPT !.port = probe.port], "Spawning")
  /\ UNCHANGED <<dlVars, cacheVars, sweep, multi, portVars, cmd, wait, xtr, store, appVars>>

\* spawnProcess returned the child pid; waitForPort is called
LaunchSpawned(pid, timeoutMs) ==
  /\ launch.pc = "Spawning"
  /\ lock.procs[pid] = "dead"
  /\ IF launch.cancelled
       THEN /\ launch' = Enter(launch, "Idle")
            /\ UNCHANGED <<lock, wait>>
       ELSE /\ launch' = Enter([launch EXCEPT !.pid = pid], "WaitingForReachable")
            /\ lock' = [lock EXCEPT !.procs[pid] = "own",
                                    !.files = afterSpawn(launch', lock.files)]
            /\ wait' = poll([WaitIdle EXCEPT !.pc = "polling", !.fn = "waitForPort",
                                             !.timeoutMs = timeoutMs])
  /\ UNCHANGED <<dlVars, cacheVars, sweep, multi, probe, cmd, xtr, store, appVars>>

\* waitForPort settled: writePortLock when the process is reachable, else
\* the process is killed
LaunchWaitSettled ==
  /\ launch.pc = "WaitingForReachable"
  /\ wait.pc = "settled"
  /\ IF launch.cancelled \/ wait.result # "reachable"
       THEN /\ launch' = Enter(launch, "Idle")
            /\ lock' = [lock EXCEPT !.procs[launch.pid] = "dead"]
       ELSE /\ launch' = Enter(launch, "Ready")
            /\ lock' = [lock EXCEPT !.files[launch.port] =
                                       [kind |-> "lock", pid |-> launch.pid]]
  /\ UNCHANGED <<dlVars, cacheVars, sweep, multi, probe, cmd, wait, xtr, store, appVars>>

LaunchRunning ==
  /\ launch.pc = "Ready"
  /\ launch' = Enter(launch, "Running")
  /\ UNCHANGED <<dlVars, cacheVars, sweep, multi, portVars, cmd, wait, xtr, store, appVars>>

\* the process is stopped or has crashed: the lock is removed
LaunchStopped ==
  /\ launch.pc = "Running"
  /\ launch' = [LaunchIdle EXCEPT !.filesAtBegin = launch.filesAtBegin]
  /\ lock' = [lock EXCEPT !.procs[launch.pid] = "dead",
                          !.files = removePortLock(lock.files, launch.port)]
  /\ UNCHANGED <<dlVars, cacheVars, sweep, multi, probe, cmd, wait, xtr, store, appVars>>

\* the user cancels the attempt: the signal handed to waitForPort is aborted
LaunchCancel ==
  /\ launch.pc \in {"PortSelection", "Spawning", "WaitingForReachable"}
  /\ ~launch.cancelled
  /\ launch' = [launch EXCEPT !.cancelled = TRUE]
  /\ wait' = IF launch.pc = "WaitingForReachable"
               THEN [wait EXCEPT !.aborted = TRUE] ELSE wait
  /\ UNCHANGED <<dlVars, cacheVars, sweep, multi, portVars, cmd, xtr, store, appVars>>

LaunchInit ==
  /\ DlIdle /\ CacheIdle
  /\ sweep = SweepIdle /\ multi = MultiNone /\ lock = LockIdle
  /\ cmd = CmdIdle /\ wait = WaitIdle /\ launch = LaunchIdle
  /\ xtr = XtrIdle /\ store = StoreIdle /\ AppIdle
  /\ \E bound \in SUBSET LockPorts : probe = [ProbeIdle EXCEPT !.bound = bound]

NextLaunch ==
  \/ \E startPort, endPort \in LockPorts : LaunchBegin(startPort, endPort)
  \/ LaunchPortSettled
  \/ \E pid \in Pids, timeoutMs \in 0..(MaxElapsed - 1) : LaunchSpawned(pid, timeoutMs)
  \/ LaunchWaitSettled
  \/ LaunchRunning
  \/ LaunchStopped
  \/ LaunchCancel
  \/ ProbeListening
  \/ ProbeClosed
  \/ \E code \in {"EADDRINUSE", "EACCES"} : ProbeError(code)
  \/ WaitResponse
  \/ WaitRequestError
  \/ \E errorToo \in BOOLEAN : WaitRequestTimeout(errorToo)
  \/ WaitPoll
  \/ WaitTick

SpecLaunch == LaunchInit /\ [][NextLaunch]_vars

\* the states of the attempt so far are the first states of LaunchOrder,
\* followed by Idle when the attempt was given up
TrailInOrder ==
  LET t == launch.trail
      n == IF t[Len(t)] = "Idle" /\ Len(t) > 1 THEN Len(t) - 1 ELSE Len(t)
  IN /\ n <= Len(LaunchOrder)
     /\ \A j \in 1..n : t[j] = LaunchOrder[j]

C23_RunningWithLock ==
  /\ launch.pc = "Running"
  /\ lock.files[launch.port] = [kind |-> "lock", pid |-> launch.pid]

(***************************************************************************)
(* extract (extract.js): run the 7z backend and judge its exit code and    *)
(* the lines it wrote to stderr.                                           *)
(***************************************************************************)
\* a line of stderr: what it starts with and what it goes on to say
StderrLines ==
  [start : {"ERROR:", "WARNING:"}, text : {"Unsupported Method", "Data Error"}]

\* the exit codes of the backend: 0 no error, 1 warning, 2 fatal error
ExitCodes == {0, 1, 2}

\* stderr.split(/\r?\n/).filter((l) => l.startsWith("ERROR:"))
errorLines(stderr) == SelectSeq(stderr, LAMBDA l : l.start = "ERROR:")

\* errorLines.length > 0 && errorLines.every((l) => l.includes("Unsupported Method"))
allUnsupported(stderr) ==
  /\ Len(errorLines(stderr)) > 0
  /\ \A j \in 1..Len(errorLines(stderr)) : errorLines(stderr)[j].text = "Unsupported Method"

\* resolve / reject of the promise: only the first call settles it
settleExtract(x, result, message) ==
  IF x.result = "none" THEN [x EXCEPT !.result = result, !.message = message] ELSE x

\* the 'close' handler of the child process
onClose(x, code) ==
  IF code # 0 /\ ~allUnsupported(x.stderr)
    THEN settleExtract(x, "rejected", IF x.stderr # <<>> THEN "stderr" ELSE "exit code")
    ELSE settleExtract(x, "resolved", "none")

Extract ==
  /\ xtr.pc = "none"
  /\ xtr' = [xtr EXCEPT !.pc = "running"]
  /\ UNCHANGED <<dlVars, cacheVars, sweep, multi, portVars, cmd, wait, launch, store, appVars>>

\* child.stderr 'data': one more line
XtrStderr(line) ==
  /\ xtr.pc = "running"
  /\ Len(xtr.stderr) < MaxLines
  /\ xtr' = [xtr EXCEPT !.stderr = Append(xtr.stderr, line)]
  /\ UNCHANGED <<dlVars, cacheVars, sweep, multi, portVars, cmd, wait, launch, store, appVars>>

\* child 'error': the backend could not be spawned or killed
XtrError ==
  /\ xtr.pc = "running"
  /\ ~xtr.spawnError
  /\ xtr' = settleExtract([xtr EXCEPT !.spawnError = TRUE], "rejected", "spawn error")
  /\ UNCHANGED <<dlVars, cacheVars, sweep, multi, portVars, cmd, wait, launch, store, appVars>>

\* child 'close'
XtrClose(code) ==
  /\ xtr.pc = "running"
  /\ xtr' = onClose([xtr EXCEPT !.pc = "closed", !.code = code], code)
  /\ UNCHANGED <<dlVars, cacheVars, sweep, multi, portVars, cmd, wait, launch, store, appVars>>

XtrInit ==
  /\ DlIdle /\ CacheIdle
  /\ sweep = SweepIdle /\ multi = MultiNone /\ PortIdle
  /\ cmd = CmdIdle /\ wait = WaitIdle /\ launch = LaunchIdle
  /\ xtr = XtrIdle /\ store = StoreIdle /\ AppIdle

NextXtr ==
  \/ Extract
  \/ \E line \in StderrLines : XtrStderr(line)
  \/ XtrError
  \/ \E code \in ExitCodes : XtrClose(code)

SpecXtr == XtrInit /\ [][NextXtr]_vars

\* stderr holds an error line that is not an 'Unsupported Method' line
HasFatalLine(stderr) ==
  \E j \in 1..Len(stderr) :
    stderr[j].start = "ERROR:" /\ stderr[j].text # "Unsupported Method"

\* C24: extract() rejects whenever the backend's output holds an error line
\* other than an 'Unsupported Method' line; it resolves when the backend
\* finished and every error line is an 'Unsupported Method' line; a non-zero
\* exit with no error line at all is a failure carrying stderr or the exit
\* code.
C24_ExtractionDiagnostics ==
  (xtr.pc = "closed" /\ ~xtr.spawnError) =>
    /\ HasFatalLine(xtr.stderr) => xtr.result = "rejected"
    /\ allUnsupported(xtr.stderr) => xtr.result = "resolved"
    /\ (errorLines(xtr.stderr) = <<>> /\ xtr.code # 0) =>
         /\ xtr.result = "rejected"
         /\ xtr.message = (IF xtr.stderr # <<>> THEN "stderr" ELSE "exit code")

\* what holds of the close handler: the lines are judged only after a
\* non-zero exit
C24_NonZeroExitJudged ==
  (xtr.pc = "closed" /\ ~xtr.spawnError) =>
    /\ (HasFatalLine(xtr.stderr) /\ xtr.code # 0) => xtr.result = "rejected"
    /\ (allUnsupported(xtr.stderr) \/ xtr.code = 0) => xtr.result = "resolved"
    /\ (errorLines(xtr.stderr) = <<>> /\ xtr.code # 0) =>
         /\ xtr.result = "rejected"
         /\ xtr.message = (IF xtr.stderr # <<>> THEN "stderr" ELSE "exit code")

(***************************************************************************)
(* The sessions store (stores/sessions.ts): four Maps keyed by             *)
(* installation id.  A Map is the sequence of its entries in insertion     *)
(* order; its size is the length of that sequence.                         *)
(***************************************************************************)
InstallationIds == {"inst-1", "inst-2"}
\* the label argument: undefined, empty, or a text
Labels == {"undefined", "", "Launching"}

mapHas(m, key) == \E j \in 1..Len(m) : m[j].key = key
mapKeys(m) == {m[j].key : j \in 1..Len(m)}
mapGet(m, key) ==
  IF mapHas(m, key) THEN (CHOOSE e \in {m[j] : j \in 1..Len(m)} : e.key = key).value
  ELSE "undefined"
mapDelete(m, key) == SelectSeq(m, LAMBDA e : e.key # key)

\* a set that adds an entry without looking for the key
mapSetAppending(m, key, value) == Append(m, [key |-> key, value |-> value])

\* Map.set: the entry of an existing key is replaced in place
mapSet(m, key, value) ==
  IF mapHas(m, key)
    THEN [j \in 1..Len(m) |-> IF m[j].key = key THEN [key |-> key, value |-> value]
                                                ELSE m[j]]
    ELSE Append(m, [key |-> key, value |-> value])

\* activeSessions.size + runningInstances.size
activeCount(st) == Len(st.activeSessions) + Len(st.runningInstances)

\* label || ''
LabelOrEmpty(label) == IF label = "undefined" THEN "" ELSE label

Called(op, id) == [op |-> op, id |-> id, hadError |-> mapHas(store.errorInstances, id)]

SetActiveSession(id, label) ==
  /\ store' = [store EXCEPT
        !.activeSessions = mapSet(store.activeSessions, id, LabelOrEmpty(label)),
        !.errorInstances = mapDelete(store.errorInstances, id),
        !.last = Called("setActiveSession", id)]
  /\ UNCHANGED <<dlVars, cacheVars, sweep, multi, portVars, cmd, wait, launch, xtr, appVars>>

\* clearActiveSession(installationId?): one session, or all without an id
ClearActiveSession(id) ==
  /\ store' = [store EXCEPT
        !.activeSessions = IF id = "undefined" THEN <<>>
                           ELSE mapDelete(store.activeSessions, id),
        !.last = Called("clearActiveSession", id)]
  /\ UNCHANGED <<dlVars, cacheVars, sweep, multi, portVars, cmd, wait, launch, xtr, appVars>>

ClearErrorInstance(id) ==
  /\ store' = [store EXCEPT
        !.errorInstances = mapDelete(store.errorInstances, id),
        !.consoleSessions = mapDelete(store.consoleSessions, id),
        !.last = Called("clearErrorInstance", id)]
  /\ UNCHANGED <<dlVars, cacheVars, sweep, multi, portVars, cmd, wait, launch, xtr, appVars>>

StartConsoleSession(id) ==
  /\ store' = [store EXCEPT
        !.consoleSessions = mapSet(store.consoleSessions, id,
                                   [output |-> 0, exited |-> FALSE]),
        !.last = Called("startConsoleSession", id)]
  /\ UNCHANGED <<dlVars, cacheVars, sweep, multi, portVars, cmd, wait, launch, xtr, appVars>>

\* appendConsoleOutput, also the onComfyOutput listener: output counts the
\* chunks appended
AppendConsoleOutput(id) ==
  /\ LET session == IF mapHas(store.consoleSessions, id)
                      THEN mapGet(store.consoleSessions, id)
                      ELSE [output |-> 0, exited |-> FALSE]
     IN /\ session.output < MaxOutput
        /\ store' = [store EXCEPT
              !.consoleSessions = mapSet(store.consoleSessions, id,
                                         [session EXCEPT !.output = session.output + 1]),
              !.last = Called("appendConsoleOutput", id)]
  /\ UNCHANGED <<dlVars, cacheVars, sweep, multi, portVars, cmd, wait, launch, xtr, appVars>>

\* the onInstanceStarted listener
OnInstanceStarted(id) ==
  /\ store' = [store EXCEPT
        !.runningInstances = mapSet(store.runningInstances, id, "running"),
        !.last = Called("onInstanceStarted", id)]
  /\ UNCHANGED <<dlVars, cacheVars, sweep, multi, portVars, cmd, wait, launch, xtr, appVars>>

\* the onInstanceStopped listener
OnInstanceStopped(id) ==
  /\ store' = [store EXCEPT
        !.runningInstances = mapDelete(store.runningInstances, id),
        !.last = Called("onInstanceStopped", id)]
  /\ UNCHANGED <<dlVars, cacheVars, sweep, multi, portVars, cmd, wait, launch, xtr, appVars>>

\* the onComfyExited listener
OnComfyExited(id, crashed) ==
  /\ store' = [store EXCEPT
        !.consoleSessions =
           IF mapHas(store.consoleSessions, id)
             THEN mapSet(store.consoleSessions, id,
                         [mapGet(store.consoleSessions, id) EXCEPT !.exited = TRUE])
             ELSE store.consoleSessions,
        !.errorInstances = IF crashed THEN mapSet(store.errorInstances, id, "crashed")
                           ELSE store.errorInstances,
        !.last = Called("onComfyExited", id)]
  /\ UNCHANGED <<dlVars, cacheVars, sweep, multi, portVars, cmd, wait, launch, xtr, appVars>>

StoreInit ==
  /\ DlIdle /\ CacheIdle
  /\ sweep = SweepIdle /\ multi = MultiNone /\ PortIdle
  /\ cmd = CmdIdle /\ wait = WaitIdle /\ launch = LaunchIdle
  /\ xtr = XtrIdle /\ store = StoreIdle /\ AppIdle

NextStore ==
  \/ \E id \in InstallationIds, label \in Labels : SetActiveSession(id, label)
  \/ \E id \in InstallationIds \cup {"undefined"} : ClearActiveSession(id)
  \/ \E id \in InstallationIds : ClearErrorInstance(id)
  \/ \E id \in InstallationIds : StartConsoleSession(id)
  \/ \E id \in InstallationIds : AppendConsoleOutput(id)
  \/ \E id \in InstallationIds : OnInstanceStarted(id)
  \/ \E id \in InstallationIds : OnInstanceStopped(id)
  \/ \E id \in InstallationIds, crashed \in BOOLEAN : OnComfyExited(id, crashed)

SpecStore == StoreInit /\ [][NextStore]_vars

\* the entries of the ids other than id are the same in both stores
OthersUnchanged(st, st2, id) ==
  \A other \in InstallationIds \ {id} :
    /\ mapHas(st2.runningInstances, other) = mapHas(st.runningInstances, other)
    /\ mapGet(st2.runningInstances, other) = mapGet(st.runningInstances, other)
    /\ mapHas(st2.activeSessions, other) = mapHas(st.activeSessions, other)
    /\ mapGet(st2.activeSessions, other) = mapGet(st.activeSessions, other)
    /\ mapHas(st2.errorInstances, other) = mapHas(st.errorInstances, other)
    /\ mapGet(st2.errorInstances, other) = mapGet(st.errorInstances, other)
    /\ mapHas(st2.consoleSessions, other) = mapHas(st.consoleSessions, other)
    /\ mapGet(st2.consoleSessions, other) = mapGet(st.consoleSessions, other)

\* C25: after setActiveSession(id, label), id is in activeSessions and not in
\* errorInstances, and the entries of the other ids in every map are
\* unchanged; clearErrorInstance(id) removes the error entry and the console
\* session of id; the sidebar count is always the number of active sessions
\* plus the number of running instances.
C25_SessionStore ==
  /\ [][\A id \in InstallationIds :
          (\E label \in Labels : SetActiveSession(id, label)) =>
            /\ mapHas(store'.activeSessions, id)
            /\ ~mapHas(store'.errorInstances, id)
            /\ OthersUnchanged(store, store', id)]_vars
  /\ [][\A id \in InstallationIds :
          ClearErrorInstance(id) =>
            /\ ~mapHas(store'.errorInstances, id)
            /\ ~mapHas(store'.consoleSessions, id)]_vars
  /\ [](activeCount(store) = Cardinality(mapKeys(store.activeSessions))
                              + Cardinality(mapKeys(store.runningInstances)))

\* setActiveSession was called for a crashed installation that already had a
\* session, while the other installation is crashed and running
C25_SessionSetOverError ==
  /\ store.last = [op |-> "setActiveSession", id |-> "inst-1", hadError |-> TRUE]
  /\ mapGet(store.activeSessions, "inst-1") = "Launching"
  /\ Len(store.activeSessions) = 2
  /\ mapHas(store.errorInstances, "inst-2")
  /\ mapHas(store.runningInstances, "inst-2")
  /\ activeCount(store) = 3

(***************************************************************************)
(* The files download() leaves when it settles.                            *)
(***************************************************************************)
\* a sidecar (readable or not) whose data file does not exist
SidecarWithoutData(d) == d.metaf.st # "none" /\ ~d.dest.ex

\* C26: whenever download() settles, in any way, the state of destPath is
\* neither file nor sidecar, file plus sidecar, or file only; it is never a
\* sidecar whose data file has been removed: no step of a call, the settling
\* one included, turns the files at destPath into a sidecar without data.
\* (A step that leaves the call idle is the death of the process.)
C26_NoSidecarWithoutData ==
  [][call'.pc # "idle" => (SidecarWithoutData(disk') => SidecarWithoutData(disk))]_vars

\* the same for every step but the size-mismatch rejection at the headers of
\* a full answer to a resume attempt
C26_OtherSettlements ==
  [][(call'.pc # "idle" /\ ~(call'.result = "sizeMismatch" /\ call.resumeFrom > 0)) =>
       (SidecarWithoutData(disk') => SidecarWithoutData(disk))]_vars

\* C27: the sidecar written during a transfer records the url the caller
\* passed to download(), so a later call with the same url matches it, also
\* when the server answered through redirects.
C27_SidecarRecordsCallerUrl ==
  (call.wroteMeta /\ disk.metaf.st = "ok") => disk.metaf.url = call.topUrl

\* the same for calls the server answers without a redirect
C27_DirectUrlRecorded ==
  (call.wroteMeta /\ disk.metaf.st = "ok" /\ call.hops = 0) =>
    disk.metaf.url = call.topUrl

(***************************************************************************)
(* Retrying download() with the same arguments against a server that       *)
(* behaves correctly, with nothing interrupting the calls.                 *)
(***************************************************************************)
\* what a failed, crashed or cancelled download may have left at destPath:
\* nothing, the complete file alone, or a prefix of the resource (possibly
\* all of it) with a sidecar, readable or not; the sidecar holds the url
\* that served the resource
LeftBehind ==
  {[dest |-> NoFile, metaf |-> NoMeta],
   [dest |-> [ex |-> TRUE, data |-> Content(srv.ver)], metaf |-> NoMeta]}
  \cup {[dest |-> [ex |-> TRUE, data |-> Prefix(Content(srv.ver), n)], metaf |-> m] :
          n \in 0..CurrentSize,
          m \in {CorruptMeta} \cup
                {DownloadMeta(0, e, t, u) :
                   u \in Urls, e \in {0, CurrentSize}, t \in {Absent, srv.ver}}}

\* the server honours Range / If-Range and answers an unsatisfiable range
\* with 416; it sends the whole resource otherwise
CorrectResponses(c) ==
  IF c.url > 0 THEN {Redirect(c.url - 1)}
  ELSE IF c.range # Absent /\ c.reqEtag = srv.ver
    THEN IF c.range < CurrentSize
           THEN {Partial(c.range, cl, etag) :
                   cl \in {Absent, CurrentSize - c.range}, etag \in {Absent, srv.ver}}
           ELSE {HttpError(416)}
    ELSE {Full(cl, etag) : cl \in {Absent, CurrentSize}, etag \in {Absent, srv.ver}}

\* the first call: the caller declares no size or the true one
RetryStart == \E u \in Urls, exp \in {0, CurrentSize} : Start(u, exp)

\* the caller invokes download() again with the arguments of the call that
\* has just failed
Retry ==
  /\ call.pc = "done" /\ call.result \notin {"none", "resolved"}
  /\ call' = Begin([IdleCall EXCEPT !.topUrl = call.topUrl,
                                    !.expectedSize = call.expectedSize],
                   disk, call.topUrl, DefaultMaxRedirects)
  /\ disk' = ApplyOps(disk, StartOps(disk, call.topUrl))
  /\ UNCHANGED <<srv, signal, cacheVars, extVars>>

RetryResponse == \E r \in CorrectResponses(call) : OnResponse(r)

\* the body is delivered to its end
RetryEnd == call.body = <<>> /\ OnEnd

RetryInit ==
  /\ srv \in [ver : {1}, size : [Versions -> 1..MaxSize]]
  /\ disk \in LeftBehind
  /\ call = IdleCall
  /\ signal = FALSE
  /\ CacheIdle
  /\ ExtIdle

NextRetry ==
  \/ RetryStart
  \/ RetryResponse
  \/ \E n \in 1..MaxSize : OnData(n)
  \/ RetryEnd
  \/ OnClose
  \/ Retry

\* every handler that can run does run, and the caller keeps retrying
SpecRetry == RetryInit /\ [][NextRetry]_vars /\ WF_vars(NextRetry)

\* download() has resolved with the complete file and no sidecar
ResolvedComplete ==
  /\ call.result = "resolved"
  /\ disk.dest.ex /\ disk.dest.data = Content(srv.ver)
  /\ disk.metaf.st = "none"

\* C28: from any state a failed, crashed or cancelled download() can leave,
\* re-invoking download() with the same arguments against a correct server
\* eventually resolves with the complete file and no sidecar.
C28_RetryLiveness == <>ResolvedComplete

\* the fully received file whose sidecar matches the url, carries the
\* current validator and records no expected size
ReceivedSizeUnknown(u) ==
  /\ disk.dest.ex /\ disk.dest.data = Content(srv.ver)
  /\ disk.metaf.st = "ok" /\ disk.metaf.url = u
  /\ disk.metaf.expectedSize = 0 /\ disk.metaf.etag = srv.ver

\* from every other state left behind the retries do resolve
C28_OtherStatesResolve == ReceivedSizeUnknown(0) \/ <>ResolvedComplete

\* a crash leaves that state: all bytes written, sidecar not yet removed
C28_LeftByCrash == call.pc = "idle" /\ ReceivedSizeUnknown(0)

(***************************************************************************)
(* Aggregate progress of downloadAndExtractMulti over any file list.       *)
(***************************************************************************)
\* the download percents reported so far never decrease
PercentsMonotone ==
  \A j, k \in 1..Len(multi.percents) : j < k => multi.percents[j] <= multi.percents[k]

PercentsWithin100 == \A j \in 1..Len(multi.percents) : multi.percents[j] <= 100

AllDeclareSize == \A j \in 1..Len(multi.files) : multi.files[j].size > 0
NoneDeclaresSize == \A j \in 1..Len(multi.files) : multi.files[j].size = 0

\* the running transfer has brought more bytes than its file declares
Overshot ==
  /\ multi.i \in 1..Len(multi.files)
  /\ multi.files[multi.i].size > 0
  /\ multi.recv > multi.files[multi.i].size

\* C29: for every file list given to downloadAndExtractMulti, lists where
\* some files declare a size and others none included, the download percents
\* reported over the call never decrease and never exceed 100 (here: as long
\* as no transfer brings more bytes than its file declares).
C29_AggregateProgressMixed == ~Overshot => (PercentsMonotone /\ PercentsWithin100)

\* the same for the lists in which no file declares a size
C29_NoSizesDeclared == NoneDeclaresSize => (PercentsMonotone /\ PercentsWithin100)

\* the same for the lists in which every file declares a size
C29_AllSizesDeclared ==
  (AllDeclareSize /\ ~Overshot) => (PercentsMonotone /\ PercentsWithin100)

(***************************************************************************)
(* Two install operations at once on one cache directory: a                *)
(* downloadAndExtract call for one cache key while a                       *)
(* downloadAndExtractMulti call runs for another.  Their synchronous       *)
(* stretches interleave at every await.                                    *)
(***************************************************************************)
\* the operation transfers into folder f, or has populated it and has not
\* finished extracting from it
InstUsing(f) == inst.key = f /\ inst.pc \in {"download", "touch", "evict", "extract"}
MultiUsing(f) == f = MultiKey /\ multi.pc \in {"download", "extract"}

\* the folders in use are all there; what an operation does once its folder
\* has gone from under it is not followed
InUseIntact == \A f \in Folders : (InstUsing(f) \/ MultiUsing(f)) => cache.dirs[f].ex

\* the multi-file call is for one undeclared-size file, nothing cached
ConcurrentRequest ==
  [MultiNone EXCEPT !.pc = "idle",
                    !.files = <<[name |-> PartName(1), size |-> 0]>>,
                    !.have = <<[art |-> "none", size |-> 0]>>]

ConcurrentInit ==
  /\ DlIdle
  /\ cache \in {EmptyCache(max) : max \in 1..MaxKeep}
  /\ inst = IdleInst
  /\ sweep = SweepIdle
  /\ PortIdle
  /\ UiIdle
  /\ multi = ConcurrentRequest

NextConcurrent ==
  \/ InUseIntact /\ NextSingle /\ inst'.key # MultiKey
  \/ InUseIntact /\ NextMulti

SpecConcurrent == ConcurrentInit /\ [][NextConcurrent]_vars

\* the step deletes cache folder f
Removed(f) == cache.dirs[f].ex /\ ~cache'.dirs[f].ex

\* C30: no call to cache.evict() made by another install operation deletes
\* a cache folder while a transfer into that folder is in progress, or after
\* it was populated and before its extraction has finished.
C30_EvictionSparesFoldersInUse ==
  [][\A f \in Folders :
       Removed(f) => /\ (inst' = inst => ~InstUsing(f))
                     /\ (multi' = multi => ~MultiUsing(f))]_vars

\* evict() deletes nothing while the cache holds no more folders than max
C30_WithinCapacityNothingRemoved ==
  [][Cardinality(Existing(cache.dirs)) <= cache.max =>
       \A f \in Folders : ~Removed(f)]_vars

(***************************************************************************)
(* Lock files that cannot be used.                                         *)
(***************************************************************************)
\* C31: whenever readPortLock(port) returns null for a port whose lock file
\* exists, the file no longer exists when the call returns, whatever made it
\* unusable: a dead pid, a missing or zero pid, JSON null, or unparsable
\* content left by a crashed writer.
C31_UnusableLocksSelfHeal ==
  [][\A port \in LockPorts :
       (/\ ReadPortLock(port)
        /\ lock.files[port] # NoLockFile
        /\ lock'.read.result = NullLock) =>
         lock'.files[port] = NoLockFile]_vars

\* the same for the lock files JSON.parse accepts
C31_ParsableLocksSelfHeal ==
  [][\A port \in LockPorts :
       (/\ ReadPortLock(port)
        /\ lock.files[port].kind \in {"null", "lock"}
        /\ lock'.read.result = NullLock) =>
         lock'.files[port] = NoLockFile]_vars

(***************************************************************************)
(* Two launcher instances on one lock directory.  Within one process       *)
(* readPortLock runs without interruption; the other process can run       *)
(* between any two of its system calls: readFileSync, process.kill,        *)
(* unlinkSync.                                                             *)
(***************************************************************************)
\* fs.readFileSync(portLockPath(port)) and JSON.parse: a missing or
\* unparsable file ends the call in the catch clause
ReaderOpen(port) ==
  /\ lock.reader.pc = "idle"
  /\ LET f == lock.files[port]
     IN lock' = IF f.kind \in {"absent", "corrupt"}
                  THEN [lock EXCEPT !.read = [port |-> port, was |-> f, result |-> NullLock]]
                  ELSE [lock EXCEPT !.reader = [pc |-> "parsed", port |-> port, raw |-> f]]
  /\ UNCHANGED <<dlVars, cacheVars, sweep, multi, probe, uiVars, appVars>>

\* if (!lock || !lock.pid || !isProcessAlive(lock.pid)), on the text read
ReaderJudge ==
  /\ lock.reader.pc = "parsed"
  /\ LET f == lock.reader.raw
         stale == f.kind = "null" \/ f.pid = 0 \/ ~isProcessAlive(lock.procs, f.pid)
     IN lock' = IF stale
                  THEN [lock EXCEPT !.reader.pc = "removing"]
                  ELSE [lock EXCEPT !.reader = ReaderIdle,
                                    !.read = [port |-> lock.reader.port, was |-> f,
                                              result |-> f]]
  /\ UNCHANGED <<dlVars, cacheVars, sweep, multi, probe, uiVars, appVars>>

\* removePortLock(port); return null
ReaderUnlink ==
  /\ lock.reader.pc = "removing"
  /\ lock' = [lock EXCEPT !.files = removePortLock(lock.files, lock.reader.port),
                          !.reader = ReaderIdle,
                          !.read = [port |-> lock.reader.port, was |-> lock.reader.raw,
                                    result |-> NullLock]]
  /\ UNCHANGED <<dlVars, cacheVars, sweep, multi, probe, uiVars, appVars>>

\* the other instance spawns a process and writes its lock
OtherWritesLock(port, pid) ==
  /\ lock.procs[pid] = "own"
  /\ WritePortLock(port, pid)

NextTwoInstances ==
  \/ \E port \in LockPorts : ReaderOpen(port)
  \/ ReaderJudge
  \/ ReaderUnlink
  \/ \E port \in LockPorts, pid \in Pids : OtherWritesLock(port, pid)
  \/ \E pid \in Pids, st \in ProcStates : ProcessChange(pid, st)

SpecTwoInstances == LockInit /\ [][NextTwoInstances]_vars

\* the file holds the lock of a process that is alive
LiveLock(f) == f.kind = "lock" /\ f.pid > 0 /\ isProcessAlive(lock.procs, f.pid)

\* C32: a readPortLock(port) running in one instance never deletes a lock
\* that the other instance wrote for a live process: a lock written after
\* the reader read a stale one and before it removes it is still there when
\* the reader's call returns.
C32_NoLostLock ==
  [][(ReaderUnlink /\ lock.files[lock.reader.port] # lock.reader.raw) =>
       ~LiveLock(lock.files[lock.reader.port])]_vars

(***************************************************************************)
(* Two findAvailablePort calls side by side, each followed by the spawn of *)
(* the process that is to listen on the port it was given.                 *)
(***************************************************************************)
\* a listener other than caller c's holds the port: the throwaway server of
\* the other call between its bind and its close, or the other's process
HeldByOther(c, port) ==
  \E o \in Callers \ {c} :
    probe.pair[o].pc \in {"closing", "bound"} /\ probe.pair[o].port = port

PairStart(c, startPort, endPort) ==
  /\ probe.pair[c].pc = "idle"
  /\ probe' = [probe EXCEPT !.pair[c] =
                  tryPort([CallerIdle EXCEPT !.endPort = endPort], startPort)]
  /\ UNCHANGED <<dlVars, cacheVars, sweep, multi, lock, uiVars, appVars>>

\* server.listen callback: server.once('close', ...); server.close()
PairListening(c) ==
  /\ probe.pair[c].pc = "listen"
  /\ ~HeldByOther(c, probe.pair[c].port)
  /\ probe' = [probe EXCEPT !.pair[c].pc = "closing"]
  /\ UNCHANGED <<dlVars, cacheVars, sweep, multi, lock, uiVars, appVars>>

\* server.on('error', () => tryPort(port + 1))
PairError(c) ==
  /\ probe.pair[c].pc = "listen"
  /\ HeldByOther(c, probe.pair[c].port)
  /\ probe' = [probe EXCEPT !.pair[c] = tryPort(probe.pair[c], probe.pair[c].port + 1)]
  /\ UNCHANGED <<dlVars, cacheVars, sweep, multi, lock, uiVars, appVars>>

\* the 'close' event: the port is free again; resolve(port)
PairClosed(c) ==
  /\ probe.pair[c].pc = "closing"
  /\ probe' = [probe EXCEPT !.pair[c].pc = "done", !.pair[c].result = "resolved"]
  /\ UNCHANGED <<dlVars, cacheVars, sweep, multi, lock, uiVars, appVars>>

\* the process spawned by caller c binds the port it was given, or finds it
\* taken
PairBind(c) ==
  /\ probe.pair[c].pc = "done" /\ probe.pair[c].result = "resolved"
  /\ probe' = [probe EXCEPT !.pair[c].pc =
                  IF HeldByOther(c, probe.pair[c].port) THEN "bind failed" ELSE "bound"]
  /\ UNCHANGED <<dlVars, cacheVars, sweep, multi, lock, uiVars, appVars>>

NextPair ==
  \/ \E c \in Callers, startPort, endPort \in ProbePorts : PairStart(c, startPort, endPort)
  \/ \E c \in Callers : PairListening(c)
  \/ \E c \in Callers : PairError(c)
  \/ \E c \in Callers : PairClosed(c)
  \/ \E c \in Callers : PairBind(c)

PairInit ==
  /\ DlIdle /\ CacheIdle
  /\ sweep = SweepIdle /\ multi = MultiNone /\ lock = LockIdle /\ UiIdle
  /\ probe = ProbeIdle

SpecPair == PairInit /\ [][NextPair]_vars

\* caller c was given its port and its process has not bound it yet
GivenUnbound(c) == probe.pair[c].pc = "done" /\ probe.pair[c].result = "resolved"

\* C33: when two findAvailablePort calls run concurrently over overlapping
\* ranges, a port returned to one caller is not also returned to the other
\* before the first caller's process has bound it; two launch attempts never
\* proceed on the same port.
C33_ExclusivePortSelection ==
  /\ ~(GivenUnbound(1) /\ GivenUnbound(2) /\ probe.pair[1].port = probe.pair[2].port)
  /\ \A c \in Callers : probe.pair[c].pc # "bind failed"

\* while both throwaway listeners exist they are on different ports
C33_ListenersApart ==
  (probe.pair[1].pc = "closing" /\ probe.pair[2].pc = "closing") =>
    probe.pair[1].port # probe.pair[2].port

(***************************************************************************)
(* The poll chain of waitForPort / waitForUrl.                             *)
(***************************************************************************)
\* requests without an outcome yet, and timers that will call poll()
Pending(w) == w.inflight + w.timers

\* C34: in waitForPort / waitForUrl each probe schedules at most one
\* following poll, so at most one probe is outstanding at any time and one
\* chain of polls exists; this includes probes that end by the request
\* timeout, where the request is destroyed after the timeout event.
C34_SinglePollChain == wait.inflight <= 1 /\ Pending(wait) <= 1

\* every event but the request timeout keeps a single chain single
C34_OtherEventsKeepOneChain ==
  [][(Pending(wait) <= 1 /\ ~(\E errorToo \in BOOLEAN : WaitRequestTimeout(errorToo))) =>
       Pending(wait') <= 1]_vars

(***************************************************************************)
(* The installation registry: installations.json behind a promise queue.   *)
(* Two versions of the module exist; they differ in load and save only.    *)
(***************************************************************************)
MaxOps == 3
MaxNow == 1
MaxDefaults == 2
MaxOrdered == 1

Impls == {"safe-file", "own-bak"}
\* Date.now() in milliseconds; an id is "inst-" followed by it
Stamps == 0..MaxNow
SourceIds == {1, 2}
Kinds == {"add", "remove", "update", "reorder", "ensureExists", "seedDefaults"}

NoJson == [st |-> "missing", list |-> <<>>]
\* JSON.stringify(installations, null, 2): a text that is never empty
JsonFile(list) == [st |-> "json", list |-> list]

SeqRange(s) == {s[i] : i \in DOMAIN s}

\* readFileSafeAsync followed by the parse of load(): the primary is taken
\* whenever it can be read and is not the empty string
LoadSafeFile(primary, bak) ==
  IF primary.st = "json" THEN [list |-> primary.list, primary |-> primary]
  ELSE IF bak.st = "json"
    THEN [list |-> bak.list, primary |-> bak]
    ELSE [list |-> <<>>, primary |-> primary]

\* load() with its own fallback: parseInstallations answers null for
\* everything but a non-empty array
LoadOwnBak(primary, bak) ==
  IF primary.st = "json" /\ Len(primary.list) > 0
    THEN [list |-> primary.list, primary |-> primary]
  ELSE IF bak.st = "json" /\ Len(bak.list) > 0
    THEN [list |-> bak.list, primary |-> bak]
    ELSE [list |-> <<>>, primary |-> primary]

load(r) ==
  IF r.impl = "safe-file" THEN LoadSafeFile(r.primary, r.bak)
                          ELSE LoadOwnBak(r.primary, r.bak)

\* what list() answers
list(r) == load(r).list

\* what get(id) answers: the first record with the id, or null
get(r, id) ==
  LET l == list(r)
      hits == {i \in DOMAIN l : l[i].id = id}
  IN IF hits = {} THEN "null" ELSE l[CHOOSE i \in hits : \A j \in hits : i <= j]

NewRecord(now, sourceId) == [id |-> now, sourceId |-> sourceId, seen |-> FALSE]

add(l, now, sourceId) == <<NewRecord(now, sourceId)>> \o l

remove(l, id) == SelectSeq(l, LAMBDA r : r.id # id)

\* findIndex: the first record with the id
update(l, id) ==
  LET hits == {i \in DOMAIN l : l[i].id = id}
      index == CHOOSE i \in hits : \A j \in hits : i <= j
  IN [i \in DOMAIN l |-> IF i = index THEN [l[i] EXCEPT !.seen = TRUE] ELSE l[i]]

\* Object.fromEntries keeps the last record of an id
ById(l, id) == l[CHOOSE i \in DOMAIN l : l[i].id = id /\ \A j \in DOMAIN l : l[j].id = id => j <= i]

reorder(l, orderedIds) ==
  LET known == SelectSeq(orderedIds, LAMBDA id : \E i \in DOMAIN l : l[i].id = id)
  IN [i \in DOMAIN known |-> ById(l, known[i])]
       \o SelectSeq(l, LAMBDA r : r.id \notin SeqRange(orderedIds))

ensureExists(l, now, sourceId) == l \o <<NewRecord(now, sourceId)>>

\* the loop has no await: its pushes read the clock in the same millisecond
seedDefaults(l, now, defaults) ==
  l \o [i \in DOMAIN defaults |-> NewRecord(now, defaults[i])]

\* the mutation's early returns: nothing is saved
Saves(op, l) ==
  CASE op.kind = "update" -> \E i \in DOMAIN l : l[i].id = op.id
    [] op.kind = "ensureExists" -> ~(\E i \in DOMAIN l : l[i].sourceId = op.sourceId)
    [] op.kind = "seedDefaults" -> Len(l) = 0 /\ Len(op.defaults) > 0
    [] OTHER -> TRUE

Modified(op, l, now) ==
  CASE op.kind = "add" -> add(l, now, op.sourceId)
    [] op.kind = "remove" -> remove(l, op.id)
    [] op.kind = "update" -> update(l, op.id)
    [] op.kind = "reorder" -> reorder(l, op.orderedIds)
    [] op.kind = "ensureExists" -> ensureExists(l, now, op.sourceId)
    [] OTHER -> seedDefaults(l, now, op.defaults)

Settled(op) == op.st \in {"fulfilled", "rejected"}

\* _queue = p.then(() => {}, () => {}): the tail is fulfilled however p settles
QueueTail(st) == "fulfilled"

\* _queue as call k finds it; Promise.resolve() before the first call
enqueue(ops, k) ==
  IF k = 1 THEN "fulfilled"
  ELSE IF Settled(ops[k - 1]) THEN QueueTail(ops[k - 1].st) ELSE "pending"

\* a mutation is called: its body is chained on the queue
\* a settled call: its promise keeps the outcome only
Done(op, st, threw) ==
  [kind |-> op.kind, sourceId |-> 1, id |-> 0, orderedIds |-> <<>>, defaults |-> <<>>,
   st |-> st, mem |-> <<>>, threw |-> threw]

\* the default sources seeded on a first run
Defaults(m) == [i \in 1..m |-> i]

RegCall(kind, sourceId, id, orderedIds, defaults) ==
  /\ Len(reg.ops) < MaxOps
  /\ kind \notin {"add", "ensureExists"} => sourceId = 1
  /\ kind \notin {"remove", "update"} => id = 0
  /\ kind # "reorder" => orderedIds = <<>>
  /\ kind # "seedDefaults" => defaults = <<>>
  /\ reg' = [reg EXCEPT !.ops = Append(@,
        [kind |-> kind, sourceId |-> sourceId, id |-> id, orderedIds |-> orderedIds,
         defaults |-> defaults, st |-> "queued", mem |-> <<>>, threw |-> FALSE])]
  /\ UNCHANGED <<dlVars, cacheVars, sweep, multi, portVars, uiVars, rel, safe, dlm>>

\* the queue reaches call k: its body starts with load(); behind a rejected
\* tail the body would not run
RegLoad(k) ==
  /\ k \in DOMAIN reg.ops /\ reg.ops[k].st = "queued"
  /\ enqueue(reg.ops, k) # "pending"
  /\ reg' = IF enqueue(reg.ops, k) = "fulfilled"
      THEN [reg EXCEPT !.ops[k].st = "loaded", !.ops[k].mem = load(reg).list,
                       !.primary = load(reg).primary]
      ELSE [reg EXCEPT !.ops[k] = Done(@, "rejected", FALSE)]
  /\ UNCHANGED <<dlVars, cacheVars, sweep, multi, portVars, uiVars, rel, safe, dlm>>

\* the body of call k modifies what it loaded and saves it: the text goes to
\* .tmp, the primary is copied to .bak when there is one, .tmp is renamed
\* over the primary; a write that fails rejects the call
RegSave(k, ok) ==
  /\ k \in DOMAIN reg.ops /\ reg.ops[k].st = "loaded"
  /\ LET op == reg.ops[k]
         saves == Saves(op, op.mem)
         next == Modified(op, op.mem, reg.now)
     IN /\ ~saves => ok
        /\ reg' = IF ~ok THEN [reg EXCEPT !.ops[k] = Done(@, "rejected", TRUE)]
                  ELSE IF ~saves THEN [reg EXCEPT !.ops[k] = Done(@, "fulfilled", FALSE)]
                  ELSE [reg EXCEPT !.ops[k] = Done(@, "fulfilled", FALSE),
                                   !.bak = IF reg.primary.st = "missing" THEN @ ELSE reg.primary,
                                   !.primary = JsonFile(next),
                                   !.expect = Modified(op, @, reg.now)]
  /\ UNCHANGED <<dlVars, cacheVars, sweep, multi, portVars, uiVars, rel, safe, dlm>>

\* a millisecond passes
RegTick ==
  /\ reg.pc = "open" /\ reg.now < MaxNow
  /\ reg' = [reg EXCEPT !.now = @ + 1]
  /\ UNCHANGED <<dlVars, cacheVars, sweep, multi, portVars, uiVars, rel, safe, dlm>>

NextReg ==
  \/ \E kind \in Kinds, sourceId \in SourceIds, id \in Stamps :
       \E n \in 0..MaxOrdered, m \in 0..MaxDefaults :
         \E orderedIds \in [1..n -> Stamps], defaults \in {Defaults(m)} :
           RegCall(kind, sourceId, id, orderedIds, defaults)
  \/ \E k \in 1..MaxOps : RegLoad(k)
  \/ \E k \in 1..MaxOps, ok \in BOOLEAN : RegSave(k, ok)
  \/ RegTick

\* a first run: no installations.json, no .bak, nothing queued
RegInit ==
  /\ DlIdle /\ CacheIdle
  /\ sweep = SweepIdle /\ multi = MultiNone /\ PortIdle
  /\ cmd = CmdIdle /\ wait = WaitIdle /\ launch = LaunchIdle
  /\ xtr = XtrIdle /\ store = StoreIdle
  /\ rel = RelIdle /\ safe = SafeIdle /\ dlm = DlmIdle
  /\ \E impl \in Impls :
       reg = [pc |-> "open", impl |-> impl, primary |-> NoJson, bak |-> NoJson,
              now |-> 0, ops |-> <<>>, expect |-> <<>>]

SpecReg == RegInit /\ [][NextReg]_vars

Running(ops) == {k \in DOMAIN ops : ops[k].st = "loaded"}

\* one load-modify-save at a time
OneAtATime == Cardinality(Running(reg.ops)) <= 1

\* a call's body has started only when every earlier call is settled
InCallOrder ==
  \A j, k \in DOMAIN reg.ops : (j < k /\ reg.ops[k].st # "queued") => Settled(reg.ops[j])

\* a call is rejected only by its own failure
OwnFailureOnly == \A k \in DOMAIN reg.ops : reg.ops[k].st = "rejected" => reg.ops[k].threw

\* between two mutations the file holds the effects of all fulfilled calls,
\* applied in call order
NoEffectLost == Running(reg.ops) = {} => list(reg) = reg.expect

\* C35: add, remove, update, reorder, ensureExists and seedDefaults issued
\* concurrently run one at a time in call order, each load-modify-save
\* against the file state the previous one left, so no effect is lost; a
\* mutation that throws neither blocks nor fails the ones queued after it.
C35_SerializedMutations ==
  reg.pc = "open" => (OneAtATime /\ InCallOrder /\ OwnFailureOnly /\ NoEffectLost)

\* the queue itself serializes, in both versions
C35_QueueSerializes == reg.pc = "open" => (OneAtATime /\ InCallOrder /\ OwnFailureOnly)

\* the version on readFileSafeAsync / writeFileSafeAsync loses no effect
C35_SafeFileNoEffectLost == (reg.pc = "open" /\ reg.impl = "safe-file") => NoEffectLost

\* call k, a remove, resolves in this step
RemoveResolves(k) ==
  /\ k \in DOMAIN reg.ops /\ reg.ops[k].kind = "remove"
  /\ reg.ops[k].st = "loaded" /\ reg'.ops[k].st = "fulfilled"

\* C36: after remove(id) resolves, list() holds no record with that id and
\* get(id) returns null, for every prior state, the removed record being the
\* only installation included, in both persistence implementations.
C36_RemovalDurable ==
  [][\A k \in 1..MaxOps : RemoveResolves(k) =>
       /\ \A i \in DOMAIN list(reg') : list(reg')[i].id # reg.ops[k].id
       /\ get(reg', reg.ops[k].id) = "null"]_vars

\* the version on readFileSafeAsync / writeFileSafeAsync keeps removals
C36_SafeFileRemovalDurable ==
  [][\A k \in 1..MaxOps : (RemoveResolves(k) /\ reg.impl = "safe-file") =>
       get(reg', reg.ops[k].id) = "null"]_vars

\* the version with its own fallback keeps them while a record is left
C36_OwnBakRemovalNotLast ==
  [][\A k \in 1..MaxOps : (RemoveResolves(k) /\ Len(reg'.primary.list) > 0) =>
       get(reg', reg.ops[k].id) = "null"]_vars

Creating == {"add", "ensureExists", "seedDefaults"}

DistinctIds(l) == \A i, j \in DOMAIN l : i # j => l[i].id # l[j].id

\* C37: after any sequence of add, ensureExists and seedDefaults calls no
\* two stored records share an id, records created inside one seedDefaults
\* call and calls completing within the same millisecond included.
C37_UniqueIds ==
  (reg.pc = "open" /\ \A k \in DOMAIN reg.ops : reg.ops[k].kind \in Creating) =>
    DistinctIds(reg.primary.list)

\* records created in different milliseconds by add and ensureExists differ
C37_DistinctMilliseconds ==
  [][\A k \in 1..MaxOps :
       (/\ k \in DOMAIN reg.ops /\ reg.ops[k].st = "loaded"
        /\ reg.ops[k].kind \in {"add", "ensureExists"}
        /\ \A j \in DOMAIN reg.ops : reg.ops[j].kind \in Creating
        /\ DistinctIds(reg.primary.list)
        /\ \A i \in DOMAIN reg.ops[k].mem : reg.ops[k].mem[i].id < reg.now)
       => DistinctIds(reg'.primary.list)]_vars

(***************************************************************************)
(* The shared release cache: getOrFetch and its single-flight map.         *)
(***************************************************************************)
MaxCalls == 3
MaxTicks == 2
TickMs == 5000
MIN_RECHECK_INTERVAL == 10000

\* makeKey(repo, track) for the two tracks of one repository
ReleaseKeys == {"github:stable", "github:latest"}
NoRelease == [checkedAt |-> 0, by |-> 0]

\* _inFlight.has(key) never true: every call not served from the cache fetches
InFlightHasNever(r, key) == FALSE

\* _inFlight.has(key)
InFlightHas(r, key) == r.inFlight[key] # 0

\* the early returns of getOrFetch: the entry comes from the cache
FromCache(r, key, force) ==
  LET cached == r.entries[key]
  IN IF ~force THEN cached # NoRelease
     ELSE cached # NoRelease /\ cached.checkedAt # 0
            /\ r.now - cached.checkedAt < MIN_RECHECK_INTERVAL

\* getOrFetch(repo, track, fetchFn, force) up to its return: the cached
\* entry, the promise already in flight, or a new promise whose body has
\* called fetchFn and is registered in _inFlight
getOrFetch(key, force) ==
  /\ rel.pc = "open" /\ Len(rel.calls) < MaxCalls
  /\ LET p == Len(rel.promises) + 1
         caller == [key |-> key, force |-> force, st |-> "waiting", p |-> 0,
                  result |-> NoRelease]
     IN rel' =
        IF FromCache(rel, key, force)
          THEN [rel EXCEPT !.calls = Append(@, [caller EXCEPT !.st = "cached",
                                                  !.result = rel.entries[key]])]
        ELSE IF InFlightHas(rel, key)
          THEN [rel EXCEPT !.calls = Append(@, [caller EXCEPT !.p = rel.inFlight[key]])]
          ELSE [rel EXCEPT !.calls = Append(@, [caller EXCEPT !.p = p]),
                           !.promises = Append(@, [key |-> key, st |-> "pending",
                                                   result |-> NoRelease]),
                           !.inFlight[key] = p]
  /\ UNCHANGED <<dlVars, cacheVars, sweep, multi, portVars, uiVars, reg, safe, dlm>>

\* fetchFn of promise p settles: an entry is stored (and persisted), null and
\* a throw store nothing; the finally block deletes the key from _inFlight
FetchSettles(p, outcome) ==
  /\ p \in DOMAIN rel.promises /\ rel.promises[p].st = "pending"
  /\ LET key == rel.promises[p].key
         entry == [checkedAt |-> rel.now, by |-> p]
     IN rel' = [rel EXCEPT
          !.promises[p].st = outcome,
          !.promises[p].result = IF outcome = "entry" THEN entry ELSE NoRelease,
          !.entries[key] = IF outcome = "entry" THEN entry ELSE @,
          !.inFlight[key] = 0]
  /\ UNCHANGED <<dlVars, cacheVars, sweep, multi, portVars, uiVars, reg, safe, dlm>>

\* a caller waiting on a settled promise gets its outcome
CallReturns(c) ==
  /\ c \in DOMAIN rel.calls /\ rel.calls[c].st = "waiting"
  /\ rel.promises[rel.calls[c].p].st # "pending"
  /\ rel' = [rel EXCEPT !.calls[c].st = rel.promises[rel.calls[c].p].st,
                        !.calls[c].result = rel.promises[rel.calls[c].p].result]
  /\ UNCHANGED <<dlVars, cacheVars, sweep, multi, portVars, uiVars, reg, safe, dlm>>

\* five seconds pass
RelTick ==
  /\ rel.pc = "open" /\ rel.now < TickMs * (MaxTicks + 1)
  /\ rel' = [rel EXCEPT !.now = @ + TickMs]
  /\ UNCHANGED <<dlVars, cacheVars, sweep, multi, portVars, uiVars, reg, safe, dlm>>

NextRel ==
  \/ \E key \in ReleaseKeys, force \in BOOLEAN : getOrFetch(key, force)
  \/ \E p \in 1..MaxCalls, outcome \in {"entry", "null", "threw"} : FetchSettles(p, outcome)
  \/ \E c \in 1..MaxCalls : CallReturns(c)
  \/ RelTick

\* _ensureLoaded: release-cache.json gave an entry for the stable track, or
\* none
RelInit ==
  /\ DlIdle /\ CacheIdle
  /\ sweep = SweepIdle /\ multi = MultiNone /\ PortIdle
  /\ cmd = CmdIdle /\ wait = WaitIdle /\ launch = LaunchIdle
  /\ xtr = XtrIdle /\ store = StoreIdle
  /\ reg = RegIdle /\ safe = SafeIdle /\ dlm = DlmIdle
  /\ \E loaded \in {{}, {"github:stable"}} :
       rel = [pc |-> "open", now |-> TickMs,
              entries |-> [k \in ReleaseKeys |->
                 IF k \in loaded THEN [checkedAt |-> TickMs, by |-> 0] ELSE NoRelease],
              inFlight |-> [k \in ReleaseKeys |-> 0],
              promises |-> <<>>, calls |-> <<>>]

SpecRel == RelInit /\ [][NextRel]_vars

\* the fetchFn invocations in flight for a key
FetchesInFlight(key) ==
  {p \in DOMAIN rel.promises : rel.promises[p].key = key /\ rel.promises[p].st = "pending"}

SingleFlight == \A key \in ReleaseKeys : Cardinality(FetchesInFlight(key)) <= 1

\* the calls that did not return from the cache and are still waiting share
\* the promise in flight; those that returned have its outcome
SharedPromise ==
  \A c \in DOMAIN rel.calls :
    LET caller == rel.calls[c] IN
      /\ caller.st = "waiting" =>
           (rel.promises[caller.p].st = "pending" => rel.inFlight[caller.key] = caller.p)
      /\ caller.st \in {"entry", "null", "threw"} =>
           (caller.st = rel.promises[caller.p].st /\ caller.result = rel.promises[caller.p].result)

\* the map holds a key exactly while its fetch is pending
EntryRemovedOnSettle ==
  \A key \in ReleaseKeys :
    IF FetchesInFlight(key) = {} THEN rel.inFlight[key] = 0
    ELSE rel.inFlight[key] \in FetchesInFlight(key)

\* a forced call within ten seconds of checkedAt
ForcedWithinInterval(key) ==
  /\ rel.entries[key] # NoRelease
  /\ rel.now - rel.entries[key].checkedAt < MIN_RECHECK_INTERVAL

\* C38: per key at most one fetchFn invocation is in flight; concurrent
\* calls not served from the cache share the in-flight promise and its
\* result; the in-flight entry is removed when the fetch settles (entry,
\* null or throw), so a later call fetches again; a forced call within 10
\* seconds of the cached entry's checkedAt returns the cached entry without
\* calling fetchFn.
C38_SingleFlightFetch ==
  /\ [](rel.pc = "open" => (SingleFlight /\ SharedPromise /\ EntryRemovedOnSettle))
  /\ [][\A key \in ReleaseKeys :
          (getOrFetch(key, TRUE) /\ ForcedWithinInterval(key)) =>
            /\ rel'.promises = rel.promises
            /\ rel'.calls[Len(rel'.calls)].st = "cached"
            /\ rel'.calls[Len(rel'.calls)].result = rel.entries[key]]_vars

\* two calls shared a fetch that threw, and a later forced call for the key
\* started a second fetch and got its entry
C38_SharedThenFetchedAgain ==
  /\ rel.pc = "open" /\ Len(rel.calls) = 3 /\ Len(rel.promises) = 2
  /\ rel.calls[1].p = 1 /\ rel.calls[2].p = 1 /\ rel.calls[1].st = "threw"
  /\ rel.calls[2].st = "threw"
  /\ rel.calls[3].key = rel.calls[1].key /\ rel.calls[3].force
  /\ rel.calls[3].p = 2 /\ rel.calls[3].st = "entry" /\ rel.calls[3].result.by = 2

\* a forced call was answered from the cache with the entry of an earlier
\* fetch
C38_ForcedFromCache ==
  /\ rel.pc = "open" /\ Len(rel.calls) = 2 /\ Len(rel.promises) = 1
  /\ rel.calls[1].st = "entry"
  /\ rel.calls[2].force /\ rel.calls[2].st = "cached" /\ rel.calls[2].result.by = 1

(***************************************************************************)
(* The safe-file helpers: writeFileSafe(Async) and readFileSafe(Async).    *)
(***************************************************************************)
MaxText == 2

\* what a path holds: nothing, the empty string, the beginning of a text, or
\* a whole text (the callers write JSON.stringify results, never "")
Missing == [st |-> "missing", text |-> 0]
Empty == [st |-> "empty", text |-> 0]
Truncated(t) == [st |-> "partial", text |-> t]
Whole(t) == [st |-> "whole", text |-> t]
Texts == 1..MaxText
\* readFileSafe was not called since the last write
NotRead == [st |-> "not read", text |-> 0]

\* filePath + '.tmp', written by mistake over the target itself
TmpPathIsTarget == "primary"

\* filePath + '.tmp'
TmpPath == "tmp"

\* what a crash during a write or a copy of `text` leaves at the path, `was`
\* being there before: nothing done yet, the file opened and truncated, a
\* beginning, or all of it
Torn(was, text) == {was, Empty, Truncated(text), Whole(text)}

\* fs.readFileSync succeeded and data.length > 0
Readable(c) == c.st \in {"partial", "whole"}

\* readFileSafe: the answer and the files it leaves
readFileSafe(files) ==
  IF Readable(files["primary"]) THEN [data |-> files["primary"], files |-> files]
  ELSE IF Readable(files["bak"])
    THEN [data |-> files["bak"], files |-> [files EXCEPT !["primary"] = files["bak"]]]
    ELSE [data |-> Missing, files |-> files]

\* writeFileSafe(filePath, data, backup) is called
SafeWriteStart(text, backup) ==
  /\ safe.pc = "idle"
  /\ safe' = [safe EXCEPT !.pc = "writing", !.data = text, !.backup = backup,
                          !.prev = safe.files["primary"], !.got = NotRead]
  /\ UNCHANGED <<dlVars, cacheVars, sweep, multi, portVars, uiVars, reg, rel, dlm>>

\* fs.writeFileSync(tmpPath, data)
SafeWriteTmp ==
  /\ safe.pc = "writing"
  /\ safe' = [safe EXCEPT !.pc = "written", !.files[TmpPath] = Whole(safe.data)]
  /\ UNCHANGED <<dlVars, cacheVars, sweep, multi, portVars, uiVars, reg, rel, dlm>>

\* if (backup) try { fs.copyFileSync(filePath, bakPath) } catch {}
SafeBackup ==
  /\ safe.pc = "written"
  /\ safe' = [safe EXCEPT !.pc = "backed up",
        !.files["bak"] = IF safe.backup /\ safe.files["primary"] # Missing
                           THEN safe.files["primary"] ELSE @]
  /\ UNCHANGED <<dlVars, cacheVars, sweep, multi, portVars, uiVars, reg, rel, dlm>>

\* fs.renameSync(tmpPath, filePath)
SafeRename ==
  /\ safe.pc = "backed up"
  /\ safe' = [safe EXCEPT !.pc = "idle", !.lost = FALSE,
        !.files = IF TmpPath = "primary" THEN @
                  ELSE [@ EXCEPT !["primary"] = safe.files[TmpPath], ![TmpPath] = Missing]]
  /\ UNCHANGED <<dlVars, cacheVars, sweep, multi, portVars, uiVars, reg, rel, dlm>>

\* the process dies inside a write: in writeFileSync, in copyFileSync, or
\* between two calls; the next run starts with the files as they are
SafeCrash ==
  /\ safe.pc \in {"writing", "written", "backed up"}
  /\ \E left \in Torn(safe.files[TmpPath], safe.data),
        copy \in Torn(safe.files["bak"], safe.files["primary"].text) :
       safe' = [safe EXCEPT !.pc = "idle", !.crashed = TRUE,
         !.files = CASE safe.pc = "writing" -> [@ EXCEPT ![TmpPath] = left]
                     [] safe.pc = "written" /\ safe.backup /\ safe.files["primary"].st = "whole"
                          -> [@ EXCEPT !["bak"] = copy]
                     [] OTHER -> @]
  /\ UNCHANGED <<dlVars, cacheVars, sweep, multi, portVars, uiVars, reg, rel, dlm>>

\* readFileSafe(filePath) is called
SafeRead ==
  /\ safe.pc = "idle" /\ safe.got = NotRead
  /\ safe' = [safe EXCEPT !.files = readFileSafe(safe.files).files,
                          !.got = readFileSafe(safe.files).data]
  /\ UNCHANGED <<dlVars, cacheVars, sweep, multi, portVars, uiVars, reg, rel, dlm>>

\* something other than the helpers deletes or empties the primary
PrimaryLost ==
  /\ safe.pc = "idle" /\ safe.files["primary"].st = "whole" /\ ~safe.lost
  /\ \E c \in {Missing, Empty} :
       safe' = [safe EXCEPT !.files["primary"] = c, !.lost = TRUE, !.got = NotRead]
  /\ UNCHANGED <<dlVars, cacheVars, sweep, multi, portVars, uiVars, reg, rel, dlm>>

NextSafe ==
  \/ \E text \in Texts, backup \in BOOLEAN : SafeWriteStart(text, backup)
  \/ SafeWriteTmp
  \/ SafeBackup
  \/ SafeRename
  \/ SafeCrash
  \/ SafeRead
  \/ PrimaryLost

\* no file yet
SafeInit ==
  /\ DlIdle /\ CacheIdle
  /\ sweep = SweepIdle /\ multi = MultiNone /\ PortIdle
  /\ cmd = CmdIdle /\ wait = WaitIdle /\ launch = LaunchIdle
  /\ xtr = XtrIdle /\ store = StoreIdle
  /\ reg = RegIdle /\ rel = RelIdle /\ dlm = DlmIdle
  /\ safe = [pc |-> "idle", files |-> [p \in {"primary", "bak", "tmp"} |-> Missing],
             data |-> 0, backup |-> FALSE, prev |-> Missing, got |-> NotRead,
             crashed |-> FALSE, lost |-> FALSE]

SpecSafe == SafeInit /\ [][NextSafe]_vars

\* the target as the last write found it, or the text that write was given
PreviousOrNew(c) == c = safe.prev \/ c = Whole(safe.data)

C39_FellBack ==
  /\ safe.pc = "idle" /\ safe.lost /\ safe.got # NotRead /\ safe.got.st = "whole"
  /\ safe.files["primary"] = safe.files["bak"]

(***************************************************************************)
(* The model download manager: pendingDownloads and the download items of  *)
(* the session.                                                            *)
(***************************************************************************)
MaxItems == 3

ModelUrls == {"a", "b"}
Windows == {1, 2}
\* no entry in pendingDownloads; entries are numbered as they are created;
\* temp[url] is the item that made the temp file of the URL, 0 without a file
NoPending == [entry |-> 0, window |-> 0, item |-> 0]

\* pendingDownloads.has(url)
PendingHas(d, url) == d.pending[url] # NoPending

\* startModelDownload(win, url, ...) with a valid path and extension: the
\* file is already there, the URL is already pending, or an entry is made
\* and sess.downloadURL(url) is called
startModelDownload(win, url) ==
  /\ dlm.pc = "open"
  /\ dlm' =
       IF dlm.saved[url] \/ PendingHas(dlm, url) THEN [dlm EXCEPT !.calls = @ + 1]
       ELSE [dlm EXCEPT
               !.calls = @ + 1,
               !.entries = @ + 1,
               !.pending[url] = [entry |-> dlm.entries + 1, window |-> win, item |-> 0],
               !.items = Append(@, [url |-> url, st |-> "requested", entry |-> 0])]
  /\ dlm'.calls <= MaxItems + 1 /\ Len(dlm'.items) <= MaxItems
  /\ UNCHANGED <<dlVars, cacheVars, sweep, multi, portVars, uiVars, reg, rel, safe>>

\* 'will-download' for item i: findPendingForItem looks the URL up; a hit
\* makes it a managed download saved to the temp path, a miss a general one
WillDownload(i) ==
  /\ i \in DOMAIN dlm.items /\ dlm.items[i].st = "requested"
  /\ LET url == dlm.items[i].url IN
     dlm' = IF PendingHas(dlm, url)
       THEN [dlm EXCEPT !.pending[url].item = i,
                        !.items[i].st = "progressing",
                        !.items[i].entry = dlm.pending[url].entry,
                        !.temp[url] = i]
       ELSE [dlm EXCEPT !.items[i].st = "general"]
  /\ UNCHANGED <<dlVars, cacheVars, sweep, multi, portVars, uiVars, reg, rel, safe>>

\* the 'done' handler of managed item i: the temp file is renamed or
\* unlinked by path and pendingDownloads.delete(pending.url) is called
OnDone(d, i, state) ==
  LET url == d.items[i].url
      moved == state = "completed" /\ d.temp[url] # 0
  IN [d EXCEPT !.items[i].st = IF state = "completed" /\ ~moved THEN "error" ELSE state,
               !.saved[url] = @ \/ moved,
               !.temp[url] = 0,
               !.pending[url] = NoPending]

\* item i ends by itself, or the 'done' event of an earlier cancel() arrives
ItemDone(i, state) ==
  /\ i \in DOMAIN dlm.items
  /\ \/ dlm.items[i].st = "progressing" /\ state \in {"completed", "interrupted"}
     \/ dlm.items[i].st = "cancelling" /\ state = "cancelled"
  /\ dlm' = OnDone(dlm, i, state)
  /\ UNCHANGED <<dlVars, cacheVars, sweep, multi, portVars, uiVars, reg, rel, safe>>

\* item.cancel(): 'done' is emitted during the call or after it
Cancel(d, i, during) ==
  IF d.items[i].st # "progressing" THEN d
  ELSE IF during THEN OnDone(d, i, "cancelled")
  ELSE [d EXCEPT !.items[i].st = "cancelling"]

\* cancelModelDownload(url)
cancelModelDownload(url, during) ==
  /\ dlm.pc = "open" /\ PendingHas(dlm, url)
  /\ dlm' = IF dlm.pending[url].item # 0 THEN Cancel(dlm, dlm.pending[url].item, during)
            ELSE [dlm EXCEPT !.pending[url] = NoPending]
  /\ UNCHANGED <<dlVars, cacheVars, sweep, multi, portVars, uiVars, reg, rel, safe>>

\* the entries of a window, one after the other: cancel the item, delete
\* the entry
RECURSIVE CleanupEntries(_, _, _, _)
CleanupEntries(d, urls, win, during) ==
  IF urls = {} THEN d
  ELSE LET url == CHOOSE u \in urls : TRUE
           e == d.pending[url]
           cancelled == IF e.item # 0 THEN Cancel(d, e.item, during) ELSE d
       IN CleanupEntries(
            IF e # NoPending /\ e.window = win
              THEN [cancelled EXCEPT !.pending[url] = NoPending] ELSE d,
            urls \ {url}, win, during)

\* cleanupWindowDownloads(win)
cleanupWindowDownloads(win, during) ==
  /\ dlm.pc = "open"
  /\ \E url \in ModelUrls : dlm.pending[url].window = win
  /\ dlm' = CleanupEntries(dlm, ModelUrls, win, during)
  /\ UNCHANGED <<dlVars, cacheVars, sweep, multi, portVars, uiVars, reg, rel, safe>>

NextDlm ==
  \/ \E win \in Windows, url \in ModelUrls : startModelDownload(win, url)
  \/ \E i \in 1..MaxItems : WillDownload(i)
  \/ \E i \in 1..MaxItems, state \in {"completed", "interrupted", "cancelled"} :
       ItemDone(i, state)
  \/ \E url \in ModelUrls, during \in BOOLEAN : cancelModelDownload(url, during)
  \/ \E win \in Windows, during \in BOOLEAN : cleanupWindowDownloads(win, during)

\* nothing pending, no model file on disk
DlmInit ==
  /\ DlIdle /\ CacheIdle
  /\ sweep = SweepIdle /\ multi = MultiNone /\ PortIdle
  /\ cmd = CmdIdle /\ wait = WaitIdle /\ launch = LaunchIdle
  /\ xtr = XtrIdle /\ store = StoreIdle
  /\ reg = RegIdle /\ rel = RelIdle /\ safe = SafeIdle
  /\ dlm = [pc |-> "open", calls |-> 0, entries |-> 0,
            pending |-> [u \in ModelUrls |-> NoPending],
            items |-> <<>>,
            temp |-> [u \in ModelUrls |-> 0],
            saved |-> [u \in ModelUrls |-> FALSE]]

SpecDlm == DlmInit /\ [][NextDlm]_vars

\* a second startModelDownload for a pending URL starts nothing new
SecondStartsNothing ==
  \A win \in Windows, url \in ModelUrls :
    (startModelDownload(win, url) /\ PendingHas(dlm, url)) =>
      (dlm'.pending = dlm.pending /\ dlm'.items = dlm.items)

\* the entry of an item is gone once the item is done
RemovedWhenDone ==
  \A i \in 1..MaxItems, state \in {"completed", "interrupted", "cancelled"} :
    ItemDone(i, state) =>
      \A url \in ModelUrls : dlm.pending[url].item = i => dlm'.pending[url] = NoPending

\* the done handler of an item leaves the entry and the temp file of a
\* newer download of the same URL alone
OwnEntryOnly ==
  \A i \in 1..MaxItems, state \in {"completed", "interrupted", "cancelled"} :
    ItemDone(i, state) =>
      LET url == dlm.items[i].url IN
        /\ dlm.pending[url].entry # dlm.items[i].entry => dlm'.pending[url] = dlm.pending[url]
        /\ dlm.temp[url] # i => dlm'.temp[url] = dlm.temp[url]

\* C40: at most one managed model download is pending per URL (a second
\* startModelDownload for a pending URL starts nothing new), every pending
\* entry is removed when its download item reaches a terminal state, and the
\* terminal event of one item removes only that item's own entry and temp
\* file, never those of a newer download registered for the same URL after
\* cleanupWindowDownloads removed the old entry.
C40_DownloadBookkeeping ==
  [][SecondStartsNothing /\ RemovedWhenDone /\ OwnEntryOnly]_vars

\* the first two parts alone
C40_OnePerUrlRemovedWhenDone == [][SecondStartsNothing /\ RemovedWhenDone]_vars

\* a done handler that finds its own entry removes nothing else
C40_OwnEntryWhenStillPending ==
  [][\A i \in 1..MaxItems, state \in {"completed", "interrupted", "cancelled"} :
       (ItemDone(i, state) /\ dlm.pending[dlm.items[i].url].item = i) =>
         \A url \in ModelUrls \ {dlm.items[i].url} :
           dlm'.pending[url] = dlm.pending[url] /\ dlm'.temp[url] = dlm.temp[url]]_vars

====
